---- MODULE Spec2Model ----
(***************************************************************************)
(* A model of the mondrian-framework type system: the decoder, the         *)
(* validator, the encoder, structural equality and the object algebra.     *)
(*                                                                         *)
(* JavaScript values are tagged records.  A number is held in halves: the  *)
(* integer h stands for the number h/2, so that non-integer numbers exist  *)
(* (h odd) while the arithmetic stays in the integers.  Every numeric      *)
(* option (minimum, maximum, ...) is in halves too; lengths and item       *)
(* counts are plain integers.                                              *)
(***************************************************************************)
EXTENDS Integers, Sequences, FiniteSets, TLC

VARIABLES type, other, value, opts, options, op, result,
          args, calls, resolutions, resolved

vars == <<type, other, value, opts, options, op, result,
          args, calls, resolutions, resolved>>

-----------------------------------------------------------------------------
(* Bounds of the model.                                                    *)

\* Longest array among the input values.
MaxLen == 3
\* The numbers among the input values go, in halves, from -1 to MaxNum + 1.
MaxNum == 4

-----------------------------------------------------------------------------
(* JavaScript values.                                                      *)

Undefined == [t |-> "undefined"]
Null == [t |-> "null"]
Bool(b) == [t |-> "boolean", b |-> b]
Num(h) == [t |-> "number", h |-> h]
NaN == [t |-> "number", nan |-> TRUE]
Str(s) == [t |-> "string", s |-> s]
Arr(items) == [t |-> "array", items |-> items]
\* An object is the sequence of its own properties, in Object.entries order.
Obj(entries) == [t |-> "object", entries |-> entries]
Prop(k, v) == [k |-> k, v |-> v]

\* typeof value
TypeOf(v) ==
  CASE v.t = "undefined" -> "undefined"
    [] v.t = "boolean" -> "boolean"
    [] v.t = "number" -> "number"
    [] v.t = "string" -> "string"
    [] OTHER -> "object"

IsNaN(v) == v.t = "number" /\ "nan" \in DOMAIN v

\* Number.isInteger(value)
IsInteger(v) == v.t = "number" /\ ~IsNaN(v) /\ v.h % 2 = 0

\* The truthiness of a value (if (value), value && ..., value ? a : b).
Truthy(v) ==
  CASE v.t = "undefined" -> FALSE
    [] v.t = "null" -> FALSE
    [] v.t = "boolean" -> v.b
    [] v.t = "number" -> ~IsNaN(v) /\ v.h # 0
    [] v.t = "string" -> v.s # ""
    [] OTHER -> TRUE

DigitStr == <<"0", "1", "2", "3", "4", "5", "6", "7", "8", "9">>

RECURSIVE NatToString(_)
\* n.toString() for an integer n >= 0
NatToString(n) ==
  IF n < 10 THEN DigitStr[n + 1]
  ELSE NatToString(n \div 10) \o DigitStr[(n % 10) + 1]

\* value.toString() of the number h/2
NumToString(h) ==
  LET a == IF h < 0 THEN -h ELSE h
  IN  (IF h < 0 THEN "-" ELSE "")
        \o NatToString(a \div 2)
        \o (IF a % 2 = 1 THEN ".5" ELSE "")

\* Number(s) of a string: the number whose decimal form s is, 0 for the
\* empty string, NaN otherwise.
StringToNumber(s) ==
  IF s = "" THEN Num(0)
  ELSE IF \E h \in (-(4 * MaxNum))..(4 * MaxNum) : NumToString(h) = s
       THEN Num(CHOOSE h \in (-(4 * MaxNum))..(4 * MaxNum) : NumToString(h) = s)
       ELSE NaN

RECURSIVE StringOf(_)
RECURSIVE Join(_, _)
\* Array.prototype.join(","): null and undefined elements give "".
Join(items, i) ==
  IF i > Len(items) THEN ""
  ELSE (IF i > 1 THEN "," ELSE "")
         \o (IF items[i].t \in {"undefined", "null"} THEN "" ELSE StringOf(items[i]))
         \o Join(items, i + 1)

\* String(value)
StringOf(v) ==
  CASE v.t = "undefined" -> "undefined"
    [] v.t = "null" -> "null"
    [] v.t = "boolean" -> IF v.b THEN "true" ELSE "false"
    [] v.t = "number" -> IF IsNaN(v) THEN "NaN" ELSE NumToString(v.h)
    [] v.t = "string" -> v.s
    [] v.t = "array" -> Join(v.items, 1)
    [] OTHER -> "[object Object]"

\* Number(value)
ToNumber(v) ==
  CASE v.t = "undefined" -> NaN
    [] v.t = "null" -> Num(0)
    [] v.t = "boolean" -> IF v.b THEN Num(2) ELSE Num(0)
    [] v.t = "number" -> v
    [] v.t = "string" -> StringToNumber(v.s)
    [] v.t = "array" -> StringToNumber(StringOf(v))
    [] OTHER -> NaN

\* value.length
LengthOf(v) ==
  CASE v.t = "string" -> Num(2 * Len(v.s))
    [] v.t = "array" -> Num(2 * Len(v.items))
    [] OTHER -> Undefined

\* a < b and a <= b between a value and a number m (in halves): the value is
\* converted with Number, and a comparison with NaN is false.
LessThan(v, m) == ~IsNaN(ToNumber(v)) /\ ToNumber(v).h < m
LessOrEqual(v, m) == ~IsNaN(ToNumber(v)) /\ ToNumber(v).h <= m
GreaterThan(v, m) == ~IsNaN(ToNumber(v)) /\ ToNumber(v).h > m
GreaterOrEqual(v, m) == ~IsNaN(ToNumber(v)) /\ ToNumber(v).h >= m

\* The own enumerable properties of an object or an array ({...value},
\* Object.keys(value), Object.entries(value)).
OwnProps(v) ==
  CASE v.t = "object" -> v.entries
    [] v.t = "array" ->
         [i \in 1..Len(v.items) |-> Prop(NatToString(i - 1), v.items[i])]
    [] v.t = "string" ->
         [i \in 1..Len(v.s) |-> Prop(NatToString(i - 1), Str(SubSeq(v.s, i, i)))]
    [] OTHER -> <<>>

Keys(v) == [i \in 1..Len(OwnProps(v)) |-> OwnProps(v)[i].k]

HasKey(v, key) == \E i \in 1..Len(OwnProps(v)) : OwnProps(v)[i].k = key

\* value[key]
Get(v, key) ==
  IF HasKey(v, key)
  THEN LET i == CHOOSE i \in 1..Len(OwnProps(v)) : OwnProps(v)[i].k = key
       IN  OwnProps(v)[i].v
  ELSE IF key = "length" THEN LengthOf(v)
  ELSE Undefined

\* accumulator[key] = val on a property sequence: an existing property keeps
\* its place, a new one is appended.
SetProp(entries, key, val) ==
  IF \E i \in 1..Len(entries) : entries[i].k = key
  THEN [i \in 1..Len(entries) |->
          IF entries[i].k = key THEN Prop(key, val) ELSE entries[i]]
  ELSE Append(entries, Prop(key, val))

-----------------------------------------------------------------------------
(* Types.  A type is a record with its kind, its options and its payload,  *)
(* or a function producing a type (a lazy type).  The options of a type    *)
(* are an object with an identity: `options` is undefined or a reference   *)
(* into OptionsHeap, and two references are === exactly when they are the  *)
(* same reference, whatever the records they point to hold.                *)

Ref(n) == [ref |-> n]

\* The options objects of the model.  References 1 and 2 point to two
\* separately built objects with the same contents.
OptionsHeap == <<
  [minimum |-> 2],
  [minimum |-> 2],
  [maximum |-> 4],
  [maximum |-> 0],
  [exclusiveMinimum |-> 0, exclusiveMaximum |-> 4],
  [isInteger |-> TRUE],
  [minLength |-> 2],
  [maxLength |-> 1],
  [regex |-> "^a"],
  [minItems |-> 2],
  [maxItems |-> 1],
  [strict |-> TRUE],
  [name |-> "named"] >>

number(o) == [kind |-> "number", options |-> o]
string(o) == [kind |-> "string", options |-> o]
boolean(o) == [kind |-> "boolean", options |-> o]
enumeration(variants, o) == [kind |-> "enum", variants |-> variants, options |-> o]
literal(literalValue, o) ==
  [kind |-> "literal", literalValue |-> literalValue, options |-> o]
\* fields: the sequence of the object's fields, in Object.entries order
object(fields, o) == [kind |-> "object", fields |-> fields, options |-> o]
Field(name, t) == [name |-> name, type |-> t]
array(wrappedType, o) == [kind |-> "array", wrappedType |-> wrappedType, options |-> o]
optional(wrappedType, o) == [kind |-> "optional", wrappedType |-> wrappedType, options |-> o]
nullable(wrappedType, o) == [kind |-> "nullable", wrappedType |-> wrappedType, options |-> o]
reference(wrappedType, o) == [kind |-> "reference", wrappedType |-> wrappedType, options |-> o]
\* variants: the sequence of the union's variants; variantsChecks: undefined,
\* or Checks(...) of the checks by variant name (a check is the name of a
\* predicate on values, see VariantCheck).
Checks(checks) == [checks |-> checks]
union(variants, variantsChecks, o) ==
  [kind |-> "union", variants |-> variants, variantsChecks |-> variantsChecks,
   options |-> o]
custom(typeName, o) == [kind |-> "custom", typeName |-> typeName, options |-> o]

\* A lazy type: a function () => Type, named by the definition it stands for.
lazy(name) == [lazy |-> [name |-> name]]

IsFunction(t) == "lazy" \in DOMAIN t

FieldNames(fields) == [i \in 1..Len(fields) |-> fields[i].name]

HasField(fields, name) == \E i \in 1..Len(fields) : fields[i].name = name

\* fields[name], undefined when the record has no such key
FieldType(fields, name) ==
  IF HasField(fields, name)
  THEN fields[CHOOSE i \in 1..Len(fields) : fields[i].name = name].type
  ELSE Undefined

\* opts?.<name> != null
HasOption(t, name) ==
  /\ t.options # Undefined
  /\ name \in DOMAIN OptionsHeap[t.options.ref]

Option(t, name) == OptionsHeap[t.options.ref][name]

\* The lazily defined types of the model.  `tree` refers to itself, and
\* `tree2` is a second definition with the same structure, referring to
\* itself; `lazyLazy` produces a lazy type.
Producers ==
  [lazyNumber |-> number(Ref(3)),
   tree |-> object(<<Field("value", number(Undefined)),
                     Field("children", array(lazy("tree"), Undefined))>>,
                   Undefined),
   tree2 |-> object(<<Field("value", number(Undefined)),
                      Field("children", array(lazy("tree2"), Undefined))>>,
                    Undefined),
   lazyObject |-> object(<<Field("a", string(Undefined)),
                           Field("r", reference(number(Undefined), Undefined))>>,
                         Ref(12)),
   lazyLazy |-> lazy("lazyNumber")]

-----------------------------------------------------------------------------
(* Concretisation, partialDeep and the object algebra.  A function that a   *)
(* helper returns is held as [lazy |-> closure], the closure naming the     *)
(* helper and holding the values the function captured.  The mutability of  *)
(* the object a helper builds is not held in the type records.              *)

\* The function () => partialDeep(type()) that partialDeep returns for a
\* lazy type.
thunk(t) == [lazy |-> [partialDeep |-> t]]

\* The function () => constructor(fields, options) that merge, pick, omit,
\* omitReferences and partial return for concrete types.
returns(t) == [lazy |-> [returns |-> t]]

IsNamed(t) == IsFunction(t) /\ "name" \in DOMAIN t.lazy

RECURSIVE Call(_)
RECURSIVE partialDeep(_)
RECURSIVE partialDeepFields(_, _)
RECURSIVE concretise(_)
RECURSIVE hasWrapper(_, _)
RECURSIVE merge(_, _, _)
RECURSIVE pick(_, _, _)
RECURSIVE omit(_, _, _)
RECURSIVE omitReferences(_, _)
RECURSIVE partial(_, _)

\* mapObject over the variants of a union (partialDeep of each) and over the
\* fields of an object (optional of partialDeep of each)
partialDeepFields(fields, inOptional) ==
  [i \in 1..Len(fields) |->
     Field(fields[i].name,
           IF inOptional THEN optional(partialDeep(fields[i].type), Undefined)
           ELSE partialDeep(fields[i].type))]

\* type(): the call of a lazy type.
Call(t) ==
  LET f == t.lazy
  IN  CASE "name" \in DOMAIN f -> Producers[f.name]
        [] "partialDeep" \in DOMAIN f -> partialDeep(Call(f.partialDeep))
        [] "returns" \in DOMAIN f -> f.returns
        [] "merge" \in DOMAIN f ->
             Call(merge(concretise(f.merge), concretise(f.other), f.options))
        [] "pick" \in DOMAIN f ->
             Call(pick(concretise(f.pick), f.fields, f.options))
        [] "omit" \in DOMAIN f ->
             Call(omit(concretise(f.omit), f.fields, f.options))
        [] "omitReferences" \in DOMAIN f ->
             Call(omitReferences(concretise(f.omitReferences), f.options))
        [] "partial" \in DOMAIN f ->
             Call(partial(concretise(f.partial), f.options))

\* The builders are called without options, and union without checks.
partialDeep(t) ==
  IF IsFunction(t) THEN thunk(t)
  ELSE CASE t.kind = "reference" -> reference(partialDeep(t.wrappedType), Undefined)
         [] t.kind = "nullable" -> nullable(partialDeep(t.wrappedType), Undefined)
         [] t.kind = "optional" -> optional(partialDeep(t.wrappedType), Undefined)
         [] t.kind = "array" -> array(partialDeep(t.wrappedType), Undefined)
         [] t.kind = "union" ->
              union(partialDeepFields(t.variants, FALSE), Undefined, Undefined)
         [] t.kind = "object" ->
              object(partialDeepFields(t.fields, TRUE), Undefined)
         [] OTHER -> t

\* concretise / lazyToType: call the type while it is a function.
concretise(t) == IF IsFunction(t) THEN concretise(Call(t)) ELSE t

\* hasWrapper looking through arrays as through the other wrappers.
hasWrapperThroughArrays(t, kind) ==
  LET concreteType == concretise(t)
      typeKind == concreteType.kind
      isWrapperType == "wrappedType" \in DOMAIN concreteType
  IN  \/ typeKind = kind
      \/ isWrapperType /\ hasWrapper(concreteType.wrappedType, kind)

hasWrapper(t, kind) ==
  LET concreteType == concretise(t)
      typeKind == concreteType.kind
      isWrapperType == "wrappedType" \in DOMAIN concreteType
  IN  \/ typeKind = kind
      \/ /\ isWrapperType
         /\ typeKind # "array"
         /\ hasWrapper(concreteType.wrappedType, kind)

isOptional(t) == hasWrapper(t, "optional")

isNullable(t) == hasWrapper(t, "nullable")

isReference(t) == hasWrapper(t, "reference")

isArray(t) == hasWrapper(t, "array")

RECURSIVE unwrap(_)
unwrap(t) ==
  LET concreteType == concretise(t)
  IN  IF "wrappedType" \in DOMAIN concreteType
      THEN unwrap(concreteType.wrappedType)
      ELSE concreteType

\* isScalar without the test on isArray.
isScalarOfUnwrapped(t) ==
  LET unwrapped == unwrap(t)
  IN  unwrapped.kind # "union" /\ unwrapped.kind # "object"

isScalar(t) ==
  LET unwrapped == unwrap(t)
      notUnionOrObject == unwrapped.kind # "union" /\ unwrapped.kind # "object"
  IN  ~isArray(t) /\ notUnionOrObject

\* { ...one.fields, ...other.fields }: the keys of one in their order, a key
\* of other taking other's value, then the keys only other has.
SpreadFields(one, other_) ==
  [i \in 1..Len(one) |->
     IF HasField(other_, one[i].name)
     THEN Field(one[i].name, FieldType(other_, one[i].name))
     ELSE one[i]]
    \o SelectSeq(other_, LAMBDA f : ~HasField(one, f.name))

\* merge keeping the type of one for a field defined in both.
mergeKeepingOne(one, other_, o) ==
  IF IsFunction(one) \/ IsFunction(other_)
  THEN [lazy |-> [merge |-> one, other |-> other_, options |-> o]]
  ELSE returns(object(SpreadFields(other_.fields, one.fields), o))

merge(one, other_, o) ==
  IF IsFunction(one) \/ IsFunction(other_)
  THEN [lazy |-> [merge |-> one, other |-> other_, options |-> o]]
  ELSE LET mergedFields == SpreadFields(one.fields, other_.fields)
       IN  returns(object(mergedFields, o))

\* k in fields && fields[k] === true
Selected(fields, k) == HasKey(fields, k) /\ Get(fields, k) = Bool(TRUE)

\* pick keeping every field of the object.
pickEverything(obj, fields, o) ==
  IF IsFunction(obj)
  THEN [lazy |-> [pick |-> obj, fields |-> fields, options |-> o]]
  ELSE returns(object(obj.fields, o))

\* filterMapObject keeps, in their order, the fields the function maps to a
\* type and drops those it maps to undefined.
pick(obj, fields, o) ==
  IF IsFunction(obj)
  THEN [lazy |-> [pick |-> obj, fields |-> fields, options |-> o]]
  ELSE LET pickedFields == SelectSeq(obj.fields, LAMBDA f : Selected(fields, f.name))
       IN  returns(object(pickedFields, o))

omit(obj, fields, o) ==
  IF IsFunction(obj)
  THEN [lazy |-> [omit |-> obj, fields |-> fields, options |-> o]]
  ELSE LET pickedFields == SelectSeq(obj.fields, LAMBDA f : ~Selected(fields, f.name))
       IN  returns(object(pickedFields, o))

\* omitReferences dropping only the fields whose own kind is reference.
omitDirectReferences(obj, o) ==
  IF IsFunction(obj)
  THEN [lazy |-> [omitReferences |-> obj, options |-> o]]
  ELSE returns(object(SelectSeq(obj.fields,
                                LAMBDA f : concretise(f.type).kind # "reference"), o))

omitReferences(obj, o) ==
  IF IsFunction(obj)
  THEN [lazy |-> [omitReferences |-> obj, options |-> o]]
  ELSE LET pickedFields ==
             SelectSeq(obj.fields, LAMBDA f : ~hasWrapper(f.type, "reference"))
       IN  returns(object(pickedFields, o))

\* partial resolving a lazy type before it returns.
partialEager(obj, o) ==
  LET concreteType == concretise(obj)
  IN  returns(object([i \in 1..Len(concreteType.fields) |->
                        IF hasWrapper(concreteType.fields[i].type, "optional")
                        THEN concreteType.fields[i]
                        ELSE Field(concreteType.fields[i].name,
                                   optional(concreteType.fields[i].type, Undefined))],
                     o))

partial(obj, o) ==
  IF IsFunction(obj)
  THEN [lazy |-> [partial |-> obj, options |-> o]]
  ELSE LET mappedFields ==
             [i \in 1..Len(obj.fields) |->
                IF hasWrapper(obj.fields[i].type, "optional")
                THEN obj.fields[i]
                ELSE Field(obj.fields[i].name,
                           optional(obj.fields[i].type, Undefined))]
       IN  returns(object(mappedFields, o))

-----------------------------------------------------------------------------
(* The invocations of the producers.  Calling a lazy type of the model      *)
(* invokes its producer; the operators below count the invocations the      *)
(* operators above make, statement by statement.                            *)

RECURSIVE invocationsOfCall(_)
RECURSIVE invocationsOfConcretise(_)
RECURSIVE invocationsOfHasWrapper(_, _)
RECURSIVE invocationsOfFields(_, _, _)

\* concretise(type): one call of the type while it is a function
invocationsOfConcretise(t) ==
  IF IsFunction(t)
  THEN invocationsOfCall(t) + invocationsOfConcretise(Call(t))
  ELSE 0

\* hasWrapper(type, kind): concretise(type), then the wrapped type if the
\* walk goes on
invocationsOfHasWrapper(t, kind) ==
  LET concreteType == concretise(t)
  IN  invocationsOfConcretise(t)
        + IF /\ concreteType.kind # kind
             /\ "wrappedType" \in DOMAIN concreteType
             /\ concreteType.kind # "array"
          THEN invocationsOfHasWrapper(concreteType.wrappedType, kind)
          ELSE 0

\* filterMapObject(obj.fields, (_, t) => hasWrapper(t, kind) ...)
invocationsOfFields(fields, kind, i) ==
  IF i > Len(fields) THEN 0
  ELSE invocationsOfHasWrapper(fields[i].type, kind)
         + invocationsOfFields(fields, kind, i + 1)

\* The invocations made by a helper before it returns: none for a lazy
\* type, those of hasWrapper on the fields for a concrete one.
invocationsOfHelper(obj, kind) ==
  IF IsFunction(obj) THEN 0 ELSE invocationsOfFields(obj.fields, kind, 1)

\* type(): the producer itself, or what the function of a helper calls.
\* partialDeep calls no type: it returns a function for a lazy one.
invocationsOfCall(t) ==
  LET f == t.lazy
  IN  CASE "name" \in DOMAIN f -> 1
        [] "partialDeep" \in DOMAIN f -> invocationsOfCall(f.partialDeep)
        [] "returns" \in DOMAIN f -> 0
        [] "merge" \in DOMAIN f ->
             invocationsOfConcretise(f.merge) + invocationsOfConcretise(f.other)
        [] "pick" \in DOMAIN f -> invocationsOfConcretise(f.pick)
        [] "omit" \in DOMAIN f -> invocationsOfConcretise(f.omit)
        [] "omitReferences" \in DOMAIN f ->
             invocationsOfConcretise(f.omitReferences)
               + invocationsOfHelper(concretise(f.omitReferences), "reference")
        [] "partial" \in DOMAIN f ->
             invocationsOfConcretise(f.partial)
               + invocationsOfHelper(concretise(f.partial), "optional")

-----------------------------------------------------------------------------
(* The decoder.  A DecodeResult is { pass: true, value } or                *)
(* { pass: false, errors }, an error { path?, error, value }.  A path is    *)
(* the string `k1/k2/.../`, held as the sequence <<k1, k2, ...>> of its     *)
(* segments: `${key}/${e.path}` is <<key>> \o e.path and `${key}/` is       *)
(* <<key>>.  The decoder names the kinds optional-decorator,                *)
(* nullable-decorator, relation-decorator (reference), union-operator,      *)
(* array-decorator and enumerator, the fields of a type `type` / `types` /  *)
(* `values` / `value` and its options `opts`.  Messages are held without    *)
(* the values interpolated in them.                                         *)

\* opts?.cast, opts?.castGqlInputUnion
Cast(o) == o # Undefined /\ o.cast
CastGqlInputUnion(o) == o # Undefined /\ o.castGqlInputUnion

success(v) == [pass |-> TRUE, value |-> v]

errors(errs) == [pass |-> FALSE, errors |-> errs]

error(msg, v) == errors(<<[error |-> msg, value |-> v]>>)

\* enrichErrors without the key: the errors keep the path they have.
enrichErrorsWithoutKey(res, key) ==
  IF ~res.pass
  THEN errors([i \in 1..Len(res.errors) |->
                 LET e == res.errors[i]
                 IN  [error |-> e.error, value |-> e.value,
                      path |-> IF "path" \in DOMAIN e THEN e.path ELSE <<>>]])
  ELSE res

enrichErrors(res, key) ==
  IF ~res.pass
  THEN errors([i \in 1..Len(res.errors) |->
                 LET e == res.errors[i]
                 IN  [error |-> e.error, value |-> e.value,
                      path |-> IF "path" \in DOMAIN e
                               THEN <<key>> \o e.path
                               ELSE <<key>>]])
  ELSE res

\* assertString casting numbers and booleans without being asked to.
assertStringCasting(v, o) ==
  IF TypeOf(v) = "string" THEN success(v)
  ELSE IF TypeOf(v) = "number"
       THEN success(Str(IF IsNaN(v) THEN "NaN" ELSE NumToString(v.h)))
  ELSE IF TypeOf(v) = "boolean"
       THEN success(Str(IF v.b THEN "true" ELSE "false"))
  ELSE error("String expected", v)

assertString(v, o) ==
  IF TypeOf(v) = "string" THEN success(v)
  ELSE IF Cast(o) /\ TypeOf(v) = "number"
       THEN success(Str(IF IsNaN(v) THEN "NaN" ELSE NumToString(v.h)))
  ELSE IF Cast(o) /\ TypeOf(v) = "boolean"
       THEN success(Str(IF v.b THEN "true" ELSE "false"))
  ELSE error("String expected", v)

assertObject(v, o) ==
  IF TypeOf(v) # "object" \/ ~Truthy(v) THEN error("Object expected", v)
  ELSE success(v)

\* checkObjectOptions starting from the empty accumulator for every object
\* type.
checkObjectOptionsStrict(v, t) == success([value |-> v, accumulator |-> <<>>])

\* The pair { value, accumulator }; the accumulator is a fresh object.
checkObjectOptions(v, t) ==
  IF HasOption(t, "strict") /\ Option(t, "strict")
  THEN success([value |-> v, accumulator |-> <<>>])
  ELSE success([value |-> v, accumulator |-> OwnProps(v)])

\* RegExp.test: the regular expressions of the model, by source.
RegexTest(source, s) ==
  CASE source = "^a" -> Len(s) > 0 /\ SubSeq(s, 1, 1) = "a"
    [] OTHER -> FALSE

checkStringOptions(v, t) ==
  IF HasOption(t, "maxLength") /\ Len(v.s) > Option(t, "maxLength")
  THEN error("String longer than max length", v)
  ELSE IF HasOption(t, "minLength") /\ Len(v.s) < Option(t, "minLength")
  THEN error("String shorter than min length", v)
  ELSE IF HasOption(t, "regex") /\ ~RegexTest(Option(t, "regex"), v.s)
  THEN error("String regex mismatch", v)
  ELSE success(v)

\* Whether the keys are the dense sequence "0", "1", ..., in this order.
RECURSIVE KeysFrom(_, _)
KeysFrom(keys, i) ==
  IF i > Len(keys) THEN TRUE
  ELSE /\ ToNumber(Str(keys[i])) = Num(2 * (i - 1))
       /\ KeysFrom(keys, i + 1)

assertArray(v, o) ==
  IF v.t = "array" THEN success(v)
  ELSE IF Cast(o) /\ TypeOf(v) = "object" /\ Truthy(v)
  THEN IF \E i \in 1..Len(Keys(v)) : IsNaN(ToNumber(Str(Keys(v)[i])))
       THEN error("Array expected", v)
       ELSE IF ~KeysFrom(Keys(v), 1)
       THEN error("Array expected", v)
       ELSE success(Arr([i \in 1..Len(Keys(v)) |-> OwnProps(v)[i].v]))
  ELSE error("Array expected", v)

checkArrayOptions(v, t) ==
  IF HasOption(t, "maxItems") /\ Len(v.items) > Option(t, "maxItems")
  THEN error("Array must have maximum items", v)
  ELSE success(v)

assertNumber(v, o) ==
  IF TypeOf(v) = "number" THEN success(v)
  ELSE IF Cast(o) /\ ~IsNaN(ToNumber(v)) THEN success(ToNumber(v))
  ELSE error("Number expected", v)

\* value % multipleOf !== 0 on halves: the remainder keeps the dividend's sign
\* and is zero exactly when the magnitudes divide.
NotMultipleOf(h, m) ==
  LET a == IF h < 0 THEN -h ELSE h
      b == IF m < 0 THEN -m ELSE m
  IN  b = 0 \/ a % b # 0

\* A comparison with NaN is false.
checkNumberOptions(v, t) ==
  IF HasOption(t, "minimum") /\ ~IsNaN(v) /\ v.h < Option(t, "minimum")
  THEN error("Number must be greater than or equal to", v)
  ELSE IF HasOption(t, "maximum") /\ ~IsNaN(v) /\ v.h > Option(t, "maximum")
  THEN error("Number must be less than or equal to", v)
  ELSE IF HasOption(t, "exclusiveMinimum") /\ ~IsNaN(v)
            /\ v.h <= Option(t, "exclusiveMinimum")
  THEN error("Number must be greater than", v)
  ELSE IF HasOption(t, "exclusiveMaximum") /\ ~IsNaN(v)
            /\ v.h >= Option(t, "exclusiveMaximum")
  THEN error("Number must be less than", v)
  ELSE IF HasOption(t, "multipleOf")
            /\ (IsNaN(v) \/ NotMultipleOf(v.h, Option(t, "multipleOf")))
  THEN error("Number must be mutiple of", v)
  ELSE success(v)

assertBoolean(v, o) ==
  IF TypeOf(v) = "boolean" THEN success(v)
  ELSE IF Cast(o) /\ TypeOf(v) \in {"number", "string"} THEN success(Bool(Truthy(v)))
  ELSE error("Boolean expected", v)


\* The callbacks of a custom type, as fromRegexes builds them: a value is of
\* the type when it is a string, the decoder accepts a string and nothing else.
customIs(t, v) == TypeOf(v) = "string"

customDecode(t, v, o) ==
  IF TypeOf(v) = "string" THEN success(v) ELSE error("Expected a string value", v)

RECURSIVE decodeInternal(_, _, _)
RECURSIVE decodeUnionLoop(_, _, _, _, _)
RECURSIVE decodeObjectLoop(_, _, _, _, _)
RECURSIVE decodeArrayLoop(_, _, _, _, _)

\* for (const u of Object.values(t.types)): the first variant that decodes
\* wins; errs collects the errors of the variants tried before it.
decodeUnionLoop(variants, v, o, i, errs) ==
  IF i > Len(variants) THEN errors(errs)
  ELSE LET res == decodeInternal(variants[i].type, v, o)
       IN  IF res.pass THEN res
           ELSE decodeUnionLoop(variants, v, o, i + 1, errs \o res.errors)

\* for (const [key, subtype] of Object.entries(type.type)).  The loop ends
\* with its result and with `at`, the number of fields it decoded.
decodeObjectLoop(v, fields, accumulator, o, i) ==
  IF i > Len(fields) THEN [res |-> success(Obj(accumulator)), at |-> i - 1]
  ELSE LET key == fields[i].name
           enrichedResult == enrichErrors(decodeInternal(fields[i].type, Get(v, key), o), key)
       IN  IF ~enrichedResult.pass THEN [res |-> enrichedResult, at |-> i]
           ELSE decodeObjectLoop(v, fields,
                  IF enrichedResult.value # Undefined
                  THEN SetProp(accumulator, key, enrichedResult.value)
                  ELSE accumulator,
                  o, i + 1)

decodeObjectProperties(v, t, accumulator, o) ==
  decodeObjectLoop(v, t.fields, accumulator, o, 1).res

RECURSIVE decodeArrayLoopAllErrors(_, _, _, _, _)
\* The loop of decodeArrayElements going on after an element that fails, and
\* collecting the errors of every failing element.
decodeArrayLoopAllErrors(items, t, o, i, values) ==
  IF i > Len(items) THEN [res |-> success(Arr(values)), at |-> i - 1]
  ELSE LET enrichedResult ==
             enrichErrors(decodeInternal(t.wrappedType, items[i], o), NatToString(i - 1))
           rest == decodeArrayLoopAllErrors(items, t, o, i + 1, values)
       IN  IF enrichedResult.pass
           THEN decodeArrayLoopAllErrors(items, t, o, i + 1,
                                         Append(values, enrichedResult.value))
           ELSE [res |-> IF rest.res.pass THEN enrichedResult
                         ELSE errors(enrichedResult.errors \o rest.res.errors),
                 at |-> rest.at]

\* for (let i = 0; i < value.length; i++).  The loop ends with its result and
\* with `at`, the number of elements it decoded.
decodeArrayLoop(items, t, o, i, values) ==
  IF i > Len(items) THEN [res |-> success(Arr(values)), at |-> i - 1]
  ELSE LET enrichedResult ==
             enrichErrors(decodeInternal(t.wrappedType, items[i], o), NatToString(i - 1))
       IN  IF ~enrichedResult.pass THEN [res |-> enrichedResult, at |-> i]
           ELSE decodeArrayLoop(items, t, o, i + 1, Append(values, enrichedResult.value))

decodeArrayElements(v, t, o) == decodeArrayLoop(v.items, t, o, 1, <<>>).res

\* The special graphql @oneOf decoding of a union.
decodeGqlInputUnion(t, v, o) ==
  IF /\ TypeOf(v) = "object" /\ Truthy(v)
     /\ Len(Keys(v)) = 1
     /\ HasField(t.variants, Keys(v)[1])
  THEN decodeInternal(FieldType(t.variants, Keys(v)[1]), Get(v, Keys(v)[1]), o)
  ELSE error("Expect exactly one of this property", v)

decodeInternal(ty, v, o) ==
  LET t == concretise(ty)
  IN  CASE t.kind = "string" ->
             LET r == assertString(v, o)
             IN  IF ~r.pass THEN r ELSE checkStringOptions(r.value, t)
        [] t.kind = "number" ->
             LET r == assertNumber(v, o)
             IN  IF ~r.pass THEN r ELSE checkNumberOptions(r.value, t)
        [] t.kind = "boolean" -> assertBoolean(v, o)
        [] t.kind = "literal" ->
             IF v = t.literalValue THEN success(v) ELSE error("Literal expected", v)
        [] t.kind = "optional" ->
             IF v = Undefined THEN success(v)
             ELSE LET r == decodeInternal(t.wrappedType, v, o)
                  IN  IF ~r.pass
                      THEN IF Len(r.errors) > 0 THEN r ELSE error("Undefined expected", v)
                      ELSE r
        [] t.kind = "nullable" ->
             IF v = Null THEN success(v)
             ELSE LET r == decodeInternal(t.wrappedType, v, o)
                  IN  IF ~r.pass
                      THEN IF Len(r.errors) > 0 THEN r ELSE error("Null expected", v)
                      ELSE r
        [] t.kind = "reference" -> decodeInternal(t.wrappedType, v, o)
        [] t.kind = "union" ->
             IF CastGqlInputUnion(o) THEN decodeGqlInputUnion(t, v, o)
             ELSE decodeUnionLoop(t.variants, v, o, 1, <<>>)
        [] t.kind = "object" ->
             LET r1 == assertObject(v, o)
             IN  IF ~r1.pass THEN r1
                 ELSE LET r2 == checkObjectOptions(r1.value, t)
                      IN  decodeObjectProperties(r2.value.value, t, r2.value.accumulator, o)
        [] t.kind = "array" ->
             LET r1 == assertArray(v, o)
             IN  IF ~r1.pass THEN r1
                 ELSE LET r2 == checkArrayOptions(r1.value, t)
                      IN  IF ~r2.pass THEN r2 ELSE decodeArrayElements(r2.value, t, o)
        [] t.kind = "enum" ->
             IF TypeOf(v) # "string" \/ ~(\E i \in 1..Len(t.variants) : t.variants[i] = v.s)
             THEN error("Enumerator expected", v)
             ELSE success(v)
        [] t.kind = "custom" ->
             IF ~customIs(t, v) THEN customDecode(t, v, o) ELSE success(v)

decode(ty, v, o) == enrichErrors(decodeInternal(ty, v, o), "")


-----------------------------------------------------------------------------
(* The validator.  A validator.Result is result.ok(true) or                *)
(* result.fail(errors), an error { assertion, got, path }; a path is the    *)
(* sequence of its segments, outermost first.  A call that throws ends in   *)
(* Thrown, and every caller up to validate ends in Thrown with it.          *)

Thrown == [thrown |-> "TypeError"]

IsThrown(r) == "thrown" \in DOMAIN r

succeed == [isOk |-> TRUE, value |-> TRUE]

failWithErrors(errs) == [isOk |-> FALSE, error |-> errs]

fail(assertion, got) ==
  failWithErrors(<<[assertion |-> assertion, got |-> got, path |-> <<>>]>>)

FieldSegment(fieldName) == [field |-> fieldName]
IndexSegment(index) == [index |-> index]
VariantSegment(variantName) == [variant |-> variantName]

Prepend(e, segment) ==
  [assertion |-> e.assertion, got |-> e.got, path |-> <<segment>> \o e.path]

\* prependFieldToPath leaving the paths as they are.
keepPath(errs, fieldName) == errs

\* validationResult.error.map(prependFieldToPath(fieldName))
prependFieldToPath(errs, fieldName) ==
  [i \in 1..Len(errs) |-> Prepend(errs[i], FieldSegment(fieldName))]

prependIndexToPath(errs, index) ==
  [i \in 1..Len(errs) |-> Prepend(errs[i], IndexSegment(index))]

prependVariantToPath(errs, variantName) ==
  [i \in 1..Len(errs) |-> Prepend(errs[i], VariantSegment(variantName))]

\* `option && ...` on a numeric option: set, and neither 0 nor NaN.
TruthyOption(t, name) == HasOption(t, name) /\ Option(t, name) # 0

validateNumber(t, v) ==
  IF t.options = Undefined THEN succeed
  ELSE IF TruthyOption(t, "maximum") /\ ~LessOrEqual(v, Option(t, "maximum"))
  THEN fail("number must be less than or equal to", v)
  ELSE IF TruthyOption(t, "exclusiveMaximum") /\ ~LessThan(v, Option(t, "exclusiveMaximum"))
  THEN fail("number must be less than to", v)
  ELSE IF TruthyOption(t, "minimum") /\ ~GreaterOrEqual(v, Option(t, "minimum"))
  THEN fail("number must be greater than or equal to", v)
  ELSE IF TruthyOption(t, "exclusiveMinimum") /\ ~GreaterThan(v, Option(t, "exclusiveMinimum"))
  THEN fail("number must be greater than", v)
  ELSE IF HasOption(t, "isInteger") /\ Option(t, "isInteger") /\ ~IsInteger(v)
  THEN fail("number must be an integer", v)
  ELSE succeed

\* value.length > n and value.length < n for a count n: false when the value
\* has no length.
LengthAbove(v, n) == LengthOf(v) # Undefined /\ LengthOf(v).h > 2 * n
LengthBelow(v, n) == LengthOf(v) # Undefined /\ LengthOf(v).h < 2 * n

\* value.length throws on null and undefined.
validateString(t, v) ==
  IF t.options = Undefined THEN succeed
  ELSE IF TruthyOption(t, "maxLength") /\ v.t \in {"undefined", "null"}
  THEN Thrown
  ELSE IF TruthyOption(t, "maxLength") /\ LengthAbove(v, Option(t, "maxLength"))
  THEN fail("string longer than max length", v)
  ELSE IF TruthyOption(t, "minLength") /\ v.t \in {"undefined", "null"}
  THEN Thrown
  ELSE IF TruthyOption(t, "minLength") /\ LengthBelow(v, Option(t, "minLength"))
  THEN fail("string shorter than min length", v)
  ELSE IF HasOption(t, "regex") /\ ~RegexTest(Option(t, "regex"), StringOf(v))
  THEN fail("string regex mismatch", v)
  ELSE succeed

\* The discriminator checks of a union's variants, by name.
VariantCheck(check, v) ==
  CASE check = "isNumber" -> TypeOf(v) = "number"
    [] check = "isString" -> TypeOf(v) = "string"
    [] check = "isObject" -> TypeOf(v) = "object" /\ Truthy(v)
    [] OTHER -> FALSE

\* The validator of a custom type, as fromRegexes builds it.
customValidate(t, v) ==
  IF RegexTest("^a", StringOf(v)) THEN succeed ELSE fail("custom regex mismatch", v)

RECURSIVE internalValidate(_, _, _)
RECURSIVE validateObjectLoop(_, _, _, _, _)
RECURSIVE validateArrayLoop(_, _, _, _, _)
RECURSIVE validateUnionLoop(_, _, _, _)

\* for (const [fieldName, fieldValue] of Object.entries(value)); type.types is
\* the record of the object's fields.
validateObjectLoop(t, entries, o, i, validationErrors) ==
  IF i > Len(entries)
  THEN IF Len(validationErrors) > 0 THEN failWithErrors(validationErrors) ELSE succeed
  ELSE LET fieldName == entries[i].k
           validationResult == internalValidate(FieldType(t.fields, fieldName), entries[i].v, o)
       IN  IF IsThrown(validationResult) THEN Thrown
           ELSE IF ~validationResult.isOk
           THEN LET errs == validationErrors
                              \o prependFieldToPath(validationResult.error, fieldName)
                IN  IF o.errorReportingStrategy = "stopAtFirstError"
                    THEN failWithErrors(errs)
                    ELSE validateObjectLoop(t, entries, o, i + 1, errs)
           ELSE validateObjectLoop(t, entries, o, i + 1, validationErrors)

\* Object.entries(value) throws on null and undefined.
validateObject(t, v, o) ==
  IF v.t \in {"undefined", "null"} THEN Thrown
  ELSE validateObjectLoop(t, OwnProps(v), o, 1, <<>>)

\* for (let i = 0; i < value.length; i++): no turn when value has no length.
validateArrayLoop(t, v, o, i, validationErrors) ==
  IF LengthOf(v) = Undefined \/ 2 * i > LengthOf(v).h
  THEN IF Len(validationErrors) > 0 THEN failWithErrors(validationErrors) ELSE succeed
  ELSE LET validationResult ==
             internalValidate(t.wrappedType, Get(v, NatToString(i - 1)), o)
       IN  IF IsThrown(validationResult) THEN Thrown
           ELSE IF ~validationResult.isOk
           THEN LET errs == validationErrors
                              \o prependIndexToPath(validationResult.error, i - 1)
                IN  IF o.errorReportingStrategy = "stopAtFirstError"
                    THEN failWithErrors(errs)
                    ELSE validateArrayLoop(t, v, o, i + 1, errs)
           ELSE validateArrayLoop(t, v, o, i + 1, validationErrors)

validateArrayElements(t, v, o) == validateArrayLoop(t, v, o, 1, <<>>)

\* value.length throws on null and undefined.
validateArray(t, v, o) ==
  IF t.options = Undefined THEN succeed
  ELSE IF v.t \in {"undefined", "null"} THEN Thrown
  ELSE IF TruthyOption(t, "maxItems") /\ LengthAbove(v, Option(t, "maxItems"))
  THEN fail("array must have at most items", v)
  ELSE IF TruthyOption(t, "minItems") /\ LengthBelow(v, Option(t, "minItems"))
  THEN fail("array must have at least items", v)
  ELSE validateArrayElements(t, v, o)

validateOptional(t, v, o) ==
  IF v = Undefined THEN succeed ELSE internalValidate(t.wrappedType, v, o)

validateNullable(t, v, o) ==
  IF v = Null THEN succeed ELSE internalValidate(t.wrappedType, v, o)

validateReference(t, v, o) == internalValidate(t.wrappedType, v, o)

\* validateUnion going on to the next variant when the variant it validated
\* the value against has errors.
validateUnionLoopNextOnFailure(t, v, o, i) ==
  IF i > Len(t.variants)
  THEN fail("value does not pass any of the variant checks", v)
  ELSE LET variantName == t.variants[i].name
           valueIsVariant ==
             /\ t.variantsChecks # Undefined
             /\ HasField(t.variantsChecks.checks, variantName)
             /\ VariantCheck(FieldType(t.variantsChecks.checks, variantName), v)
           validationResult == internalValidate(t.variants[i].type, v, o)
       IN  IF valueIsVariant /\ ~IsThrown(validationResult) /\ validationResult.isOk
           THEN succeed
           ELSE validateUnionLoop(t, v, o, i + 1)

\* for (const [variantName, variantType] of Object.entries(type.variants))
validateUnionLoop(t, v, o, i) ==
  IF i > Len(t.variants)
  THEN fail("value does not pass any of the variant checks", v)
  ELSE LET variantName == t.variants[i].name
           valueIsVariant ==
             /\ t.variantsChecks # Undefined
             /\ HasField(t.variantsChecks.checks, variantName)
             /\ VariantCheck(FieldType(t.variantsChecks.checks, variantName), v)
       IN  IF valueIsVariant
           THEN LET validationResult == internalValidate(t.variants[i].type, v, o)
                IN  IF IsThrown(validationResult) THEN Thrown
                    ELSE IF ~validationResult.isOk
                    THEN failWithErrors(prependVariantToPath(validationResult.error, variantName))
                    ELSE succeed
           ELSE validateUnionLoop(t, v, o, i + 1)

validateUnion(t, v, o) == validateUnionLoop(t, v, o, 1)

\* concretise(undefined) is undefined, and reading its kind throws.
internalValidate(ty, v, o) ==
  IF ty = Undefined THEN Thrown
  ELSE LET concreteType == concretise(ty)
       IN  CASE concreteType.kind = "boolean" -> succeed
             [] concreteType.kind = "enum" -> succeed
             [] concreteType.kind = "literal" -> succeed
             [] concreteType.kind = "number" -> validateNumber(concreteType, v)
             [] concreteType.kind = "string" -> validateString(concreteType, v)
             [] concreteType.kind = "optional" -> validateOptional(concreteType, v, o)
             [] concreteType.kind = "nullable" -> validateNullable(concreteType, v, o)
             [] concreteType.kind = "object" -> validateObject(concreteType, v, o)
             [] concreteType.kind = "union" -> validateUnion(concreteType, v, o)
             [] concreteType.kind = "array" -> validateArray(concreteType, v, o)
             [] concreteType.kind = "reference" -> validateReference(concreteType, v, o)
             [] concreteType.kind = "custom" -> customValidate(concreteType, v)

defaultOptions == [errorReportingStrategy |-> "stopAtFirstError"]

\* { ...defaultOptions, ...options }: options is undefined or gives the strategy.
validate(ty, v, o) ==
  internalValidate(ty, v, IF o = Undefined THEN defaultOptions ELSE o)

-----------------------------------------------------------------------------
(* The encoder.  Its code is not part of the sources at hand: it is        *)
(* modelled from the specification's section 4.4.                          *)

RECURSIVE encodeWithoutValidation(_, _)
RECURSIVE encodeArrayLoop(_, _, _)
RECURSIVE encodeObjectLoop(_, _, _)
RECURSIVE encodeUnionLoop(_, _, _)

encodeArrayLoop(t, items, i) ==
  IF i > Len(items) THEN <<>>
  ELSE <<encodeWithoutValidation(t.wrappedType, items[i])>>
         \o encodeArrayLoop(t, items, i + 1)

\* each field of the type, under its name and in the order of the fields
encodeObjectLoop(t, v, i) ==
  IF i > Len(t.fields) THEN <<>>
  ELSE LET f == t.fields[i]
       IN  <<Prop(f.name, encodeWithoutValidation(f.type, Get(v, f.name)))>>
             \o encodeObjectLoop(t, v, i + 1)

\* the value is encoded as the variant it belongs to: the first one whose
\* check accepts it
encodeUnionLoop(t, v, i) ==
  IF i > Len(t.variants) THEN v
  ELSE IF /\ t.variantsChecks # Undefined
          /\ HasField(t.variantsChecks.checks, t.variants[i].name)
          /\ VariantCheck(FieldType(t.variantsChecks.checks, t.variants[i].name), v)
       THEN encodeWithoutValidation(t.variants[i].type, v)
       ELSE encodeUnionLoop(t, v, i + 1)

encodeWithoutValidation(ty, v) ==
  LET t == concretise(ty)
  IN  CASE t.kind = "optional" ->
             IF v = Undefined THEN Null
             ELSE encodeWithoutValidation(t.wrappedType, v)
        [] t.kind = "nullable" ->
             IF v = Null THEN Null
             ELSE encodeWithoutValidation(t.wrappedType, v)
        [] t.kind = "reference" -> encodeWithoutValidation(t.wrappedType, v)
        [] t.kind = "array" ->
             IF v.t = "array" THEN Arr(encodeArrayLoop(t, v.items, 1)) ELSE v
        [] t.kind = "object" ->
             IF v.t = "object" THEN Obj(encodeObjectLoop(t, v, 1)) ELSE v
        [] t.kind = "union" -> encodeUnionLoop(t, v, 1)
        [] OTHER -> v

ok(v) == [isOk |-> TRUE, value |-> v]

\* encode without the validation.
encodeSkippingValidation(ty, v, o) == ok(encodeWithoutValidation(ty, v))

\* encode: validate, then encode when the validation succeeded.  What the
\* validation throws goes through.
encode(ty, v, o) ==
  LET validated == validate(ty, v, o)
  IN  IF IsThrown(validated) THEN validated
      ELSE IF validated.isOk THEN ok(encodeWithoutValidation(ty, v))
      ELSE validated

-----------------------------------------------------------------------------
(* isType, assertType.                                                     *)

isType(ty, v, decodingOptions) == decode(ty, v, decodingOptions).pass

\* assertType returns nothing, or throws an Error with the decoding errors.
assertType(ty, v, decodingOptions) ==
  LET decoded == decode(ty, v, decodingOptions)
  IN  IF decoded.pass THEN Undefined
      ELSE [thrown |-> "Error", errors |-> decoded.errors]

-----------------------------------------------------------------------------
(* areEqual.  The result is a boolean, or the RangeError the engine throws *)
(* when the recursion never ends (the call stack overflows).               *)

\* The depth of calls the stack holds.
StackLimit == 12

RangeError == [thrown |-> "RangeError"]

\* one == other.  Two functions are the same pointer when they are the same
\* definition; the function partialDeep returns is a new one at each call.
\* Two concrete types are compared structurally: equal records may be two
\* objects, and being one object changes nothing to the comparison's result.
SamePointer(one, other_) == IsNamed(one) /\ IsNamed(other_) /\ one = other_

\* a && b, where b is evaluated only when a is true
AndThen(a, b) == IF a = Bool(TRUE) THEN b ELSE a

\* sameKindAndOptions comparing what the options hold, not which object they are.
sameKindAndOptionsContents(one, other_) ==
  Bool(/\ one.kind = other_.kind
       /\ (one.options = Undefined) = (other_.options = Undefined)
       /\ one.options # Undefined =>
            OptionsHeap[one.options.ref] = OptionsHeap[other_.options.ref])

sameKindAndOptions(one, other_) ==
  Bool(one.kind = other_.kind /\ one.options = other_.options)

arraysHaveSameElements(array1, array2) ==
  Bool(/\ Len(array1) = Len(array2)
       /\ \A i \in 1..Len(array1) : \E j \in 1..Len(array2) : array2[j] = array1[i])

RECURSIVE areEqualAt(_, _, _)
RECURSIVE everyField(_, _, _, _)

\* Object.entries(one).every(([fieldName, fieldType]) =>
\*   areEqual(other[fieldName], fieldType))
everyField(one, other_, i, depth) ==
  IF i > Len(one) THEN Bool(TRUE)
  ELSE AndThen(areEqualAt(FieldType(other_, one[i].name), one[i].type, depth),
               everyField(one, other_, i + 1, depth))

sameFieldsAreSameTypes(one, other_, depth) ==
  AndThen(arraysHaveSameElements(FieldNames(one), FieldNames(other_)),
          everyField(one, other_, 1, depth))

areEqualAt(one, other_, depth) ==
  IF depth > StackLimit THEN RangeError
  ELSE IF SamePointer(one, other_) THEN Bool(TRUE)
  ELSE
    LET type1 == concretise(one)
        type2 == concretise(other_)
        sameKind == Bool(type1.kind = type2.kind /\ type1.options = type2.options)
    IN  CASE type1.kind \in {"number", "boolean", "string"} ->
               sameKindAndOptions(type1, type2)
          [] type1.kind = "literal" ->
               AndThen(sameKind, Bool(type1.literalValue = type2.literalValue))
          [] type1.kind = "enum" ->
               AndThen(sameKind,
                       arraysHaveSameElements(type1.variants, type2.variants))
          [] type1.kind = "custom" ->
               AndThen(sameKind, Bool(type1.typeName = type2.typeName))
          [] type1.kind \in {"array", "nullable", "optional", "reference"} ->
               AndThen(sameKind,
                       areEqualAt(type1.wrappedType, type2.wrappedType, depth + 1))
          [] type1.kind = "object" ->
               AndThen(sameKind,
                       sameFieldsAreSameTypes(type1.fields, type2.fields, depth + 1))
          [] type1.kind = "union" ->
               AndThen(sameKind,
                       sameFieldsAreSameTypes(type1.variants, type2.variants,
                                              depth + 1))

areEqual(one, other_) == areEqualAt(one, other_, 0)

-----------------------------------------------------------------------------
(* The inputs: the types, the values and the options the operations are    *)
(* applied to.                                                             *)

NumberAB == object(<<Field("a", number(Ref(3))), Field("b", number(Ref(3)))>>, Undefined)
StringA == object(<<Field("a", string(Undefined))>>, Undefined)
NumberOrString ==
  union(<<Field("a", number(Ref(3))), Field("b", string(Ref(7)))>>,
        Checks(<<Field("a", "isNumber"), Field("b", "isString")>>), Undefined)

Types ==
  { number(Undefined), number(Ref(1)), number(Ref(2)), number(Ref(3)),
    number(Ref(4)), number(Ref(5)), number(Ref(6)),
    string(Undefined), string(Ref(7)), string(Ref(8)), string(Ref(9)),
    boolean(Undefined),
    literal(Str("a"), Undefined), literal(Num(2), Undefined),
    enumeration(<<"a", "b">>, Undefined),
    custom("startsWithA", Undefined),
    array(number(Undefined), Undefined),
    array(string(Undefined), Undefined),
    array(number(Ref(3)), Undefined),
    array(number(Ref(3)), Ref(10)),
    array(number(Undefined), Ref(11)),
    array(StringA, Undefined),
    optional(number(Ref(3)), Undefined),
    nullable(number(Undefined), Undefined),
    optional(nullable(number(Undefined), Undefined), Undefined),
    reference(string(Ref(7)), Undefined),
    NumberAB,
    StringA,
    object(<<Field("a", number(Undefined)),
             Field("b", optional(string(Undefined), Undefined))>>, Undefined),
    object(<<Field("a", number(Undefined))>>, Ref(12)),
    object(<<Field("a", array(number(Ref(3)), Ref(10))),
             Field("b", NumberAB)>>, Ref(13)),
    NumberOrString,
    union(<<Field("a", number(Ref(3))), Field("b", string(Ref(7)))>>,
          Undefined, Undefined),
    union(<<Field("a", StringA), Field("b", NumberAB)>>,
          Checks(<<Field("a", "isObject"), Field("b", "isObject")>>), Undefined),
    union(<<Field("a", number(Ref(3))), Field("b", number(Undefined))>>,
          Checks(<<Field("a", "isNumber"), Field("b", "isNumber")>>), Undefined),
    lazy("lazyNumber"),
    lazy("tree") }

\* The types only the operations on types are applied to.
Wrapped ==
  object(<<Field("a", number(Undefined)),
           Field("r", reference(StringA, Undefined)),
           Field("o", optional(reference(number(Undefined), Undefined), Undefined)),
           Field("n", nullable(optional(number(Undefined), Undefined), Undefined)),
           Field("l", array(reference(number(Undefined), Undefined), Undefined)),
           Field("z", lazy("lazyNumber"))>>, Ref(13))

MoreTypes ==
  { enumeration(<<"b", "a">>, Undefined),
    enumeration(<<"a", "a">>, Undefined),
    enumeration(<<"a", "b", "b">>, Undefined),
    enumeration(<<"a", "c">>, Undefined),
    array(optional(number(Undefined), Undefined), Undefined),
    array(reference(number(Undefined), Undefined), Undefined),
    reference(optional(number(Undefined), Undefined), Undefined),
    optional(array(number(Undefined), Undefined), Undefined),
    nullable(reference(NumberAB, Undefined), Undefined),
    optional(NumberOrString, Undefined),
    Wrapped,
    object(<<Field("b", string(Undefined)), Field("c", boolean(Undefined))>>,
           Ref(12)),
    lazy("tree2"),
    lazy("lazyObject"),
    lazy("lazyLazy") }

AllTypes == Types \cup MoreTypes

\* The fields argument of pick and omit.
Selections ==
  { Obj(<<>>),
    Obj(<<Prop("a", Bool(TRUE))>>),
    Obj(<<Prop("a", Bool(TRUE)), Prop("b", Bool(TRUE))>>),
    Obj(<<Prop("r", Bool(TRUE)), Prop("children", Bool(TRUE)),
          Prop("extra", Bool(TRUE))>>) }

\* The options argument of the helpers.
ObjectOptions == {Undefined, Ref(13)}

\* The numbers -1/2 .. (MaxNum + 1)/2.
Numbers == {Num(h) : h \in -1..(MaxNum + 1)}

Strings == {Str(s) : s \in {"", "a", "ab", "abc", "b", "1", "true"}}

Elements == {Num(2), Num(MaxNum + 1), Str("a"), Obj(<<>>)}

RECURSIVE SeqsUpTo(_, _)
SeqsUpTo(S, n) ==
  IF n = 0 THEN {<<>>}
  ELSE LET shorter == SeqsUpTo(S, n - 1)
       IN  shorter \cup {Append(q, e) : q \in {r \in shorter : Len(r) = n - 1}, e \in S}

Arrays == {Arr(items) : items \in SeqsUpTo(Elements, MaxLen)}

PropertyValues == {Num(2), Num(MaxNum + 1), Str("a")}

\* The objects with the properties a, b and extra, each absent or present.
Objects ==
  LET Maybe(key, S) == {<<>>} \cup {<<Prop(key, v)>> : v \in S}
  IN  {Obj(a \o b \o extra) :
         a \in Maybe("a", PropertyValues \cup {Arr(<<Num(2)>>)}),
         b \in Maybe("b", PropertyValues \cup {Obj(<<Prop("a", Num(MaxNum + 1)),
                                                   Prop("b", Num(MaxNum + 1))>>)}),
         extra \in Maybe("extra", {Num(2)})}
    \cup {Obj(<<Prop("b", Num(2)), Prop("a", Num(2))>>),
          Obj(<<Prop("0", Num(2)), Prop("1", Str("a"))>>),
          Obj(<<Prop("value", Num(2)),
                Prop("children", Arr(<<Obj(<<Prop("value", Num(2)),
                                             Prop("children", Arr(<<>>))>>)>>))>>)}

Values ==
  {Undefined, Null, NaN, Bool(TRUE), Bool(FALSE)}
    \cup Numbers \cup Strings \cup Arrays \cup Objects

DecodeOptions ==
  {Undefined, [cast |-> TRUE, castGqlInputUnion |-> FALSE],
   [cast |-> FALSE, castGqlInputUnion |-> TRUE]}

ValidationOptions ==
  {Undefined, [errorReportingStrategy |-> "stopAtFirstError"],
   [errorReportingStrategy |-> "allErrors"]}

-----------------------------------------------------------------------------
(* The state machine: the inputs are drawn at the start, and each action   *)
(* applies one operation of the library to them.                           *)

NoResult == [none |-> TRUE]

\* The resolutions of a returned type that are followed.
MaxResolutions == 2

\* Either a type, a value and the options of the engines, or two types.
Init ==
  /\ op = "init"
  /\ result = NoResult
  /\ args = Undefined
  /\ calls = 0
  /\ resolutions = 0
  /\ resolved = NoResult
  /\ \/ /\ type \in Types
        /\ other = Undefined
        /\ value \in Values
        /\ opts \in DecodeOptions
        /\ options \in ValidationOptions
     \/ /\ type \in AllTypes
        /\ other \in AllTypes
        /\ value = Undefined
        /\ opts = Undefined
        /\ options = Undefined

\* A helper applied: its result, the arguments it was given besides the
\* types, and the invocations of producers it made before it returned.
Helper(name, r, a, n) ==
  /\ op' = name
  /\ result' = r
  /\ args' = a
  /\ calls' = n
  /\ resolutions' = 0
  /\ resolved' = NoResult
  /\ UNCHANGED <<type, other, value, opts, options>>

Apply(name, r) == Helper(name, r, Undefined, 0)

Decode == Apply("decode", decode(type, value, opts))

Validate == Apply("validate", validate(type, value, options))

Encode == Apply("encode", encode(type, value, options))

AssertType == Apply("assertType", assertType(type, value, opts))

PartialDeep == Apply("partialDeep", partialDeep(type))

AreEqual ==
  /\ other # Undefined
  /\ Apply("areEqual", areEqual(type, other))

\* The helpers take object types, lazy or not.
IsObjectType(t) == t # Undefined /\ concretise(t).kind = "object"

Merge ==
  /\ IsObjectType(type)
  /\ IsObjectType(other)
  /\ \E o \in ObjectOptions :
       Helper("merge", merge(type, other, o), [options |-> o], 0)

Pick ==
  /\ other # Undefined
  /\ IsObjectType(type)
  /\ \E fields \in Selections, o \in ObjectOptions :
       Helper("pick", pick(type, fields, o), [fields |-> fields, options |-> o], 0)

Omit ==
  /\ other # Undefined
  /\ IsObjectType(type)
  /\ \E fields \in Selections, o \in ObjectOptions :
       Helper("omit", omit(type, fields, o), [fields |-> fields, options |-> o], 0)

OmitReferences ==
  /\ other # Undefined
  /\ IsObjectType(type)
  /\ \E o \in ObjectOptions :
       Helper("omitReferences", omitReferences(type, o), [options |-> o],
              invocationsOfHelper(type, "reference"))

Partial ==
  /\ other # Undefined
  /\ IsObjectType(type)
  /\ \E o \in ObjectOptions :
       Helper("partial", partial(type, o), [options |-> o],
              invocationsOfHelper(type, "optional"))

\* The returned type is resolved: concretise(result).
Resolve ==
  /\ IsFunction(result)
  /\ resolutions < MaxResolutions
  /\ resolved' = concretise(result)
  /\ calls' = calls + invocationsOfConcretise(result)
  /\ resolutions' = resolutions + 1
  /\ UNCHANGED <<type, other, value, opts, options, op, result, args>>

IsOptional == other # Undefined /\ Apply("isOptional", Bool(isOptional(type)))

IsNullable == other # Undefined /\ Apply("isNullable", Bool(isNullable(type)))

IsReference == other # Undefined /\ Apply("isReference", Bool(isReference(type)))

IsArray == other # Undefined /\ Apply("isArray", Bool(isArray(type)))

Unwrap == other # Undefined /\ Apply("unwrap", unwrap(type))

IsScalar == other # Undefined /\ Apply("isScalar", Bool(isScalar(type)))

\* concretise calling the type once.
ConcretiseOnce ==
  /\ other # Undefined
  /\ Apply("concretise", IF IsFunction(type) THEN Call(type) ELSE type)

Concretise == other # Undefined /\ Apply("concretise", concretise(type))

Next ==
  \/ Decode
  \/ Validate
  \/ Encode
  \/ AssertType
  \/ PartialDeep
  \/ AreEqual
  \/ Merge
  \/ Pick
  \/ Omit
  \/ OmitReferences
  \/ Partial
  \/ Resolve
  \/ IsOptional
  \/ IsNullable
  \/ IsReference
  \/ IsArray
  \/ Unwrap
  \/ IsScalar
  \/ Concretise

Spec == Init /\ [][Next]_vars

-----------------------------------------------------------------------------
(* The claims.                                                             *)

IsPrefix(p, q) == Len(p) <= Len(q) /\ SubSeq(q, 1, Len(p)) = p

Succeeds(validated) == ~IsThrown(validated) /\ validated.isOk

Fails(validated) == ~IsThrown(validated) /\ ~validated.isOk

\* expect(a).toEqual(b): recursive equality, where the order of the
\* properties of an object does not matter and an undefined property is
\* as good as none.
RECURSIVE SameJson(_, _)
SameJson(a, b) ==
  IF a.t = "array" /\ b.t = "array"
  THEN /\ Len(a.items) = Len(b.items)
       /\ \A i \in 1..Len(a.items) : SameJson(a.items[i], b.items[i])
  ELSE IF a.t = "object" /\ b.t = "object"
  THEN \A i \in 1..(Len(a.entries) + Len(b.entries)) :
         LET key == IF i <= Len(a.entries) THEN a.entries[i].k
                    ELSE b.entries[i - Len(a.entries)].k
         IN  SameJson(Get(a, key), Get(b, key))
  ELSE a = b

\* C1 (as stated): whenever decode(type, value) succeeds with d, validate(type, d)
\* reports no violated constraint.  (A validation that throws is the matter of
\* C2 and is not counted here.)
C1_DecodedIsValid ==
  (op = "decode" /\ result.pass) =>
    ~Fails(validate(type, result.value, options))

\* C2 (as stated): decode never throws, and validate never throws on a value
\* that decode accepts, a value with undeclared properties included; a failed
\* decode makes assertType, and only assertType, throw.
C2_NeverThrows ==
  /\ op = "decode" => ~IsThrown(result)
  /\ (op = "validate" /\ decode(type, value, opts).pass) => ~IsThrown(result)
  /\ op = "assertType" => (IsThrown(result) <=> ~decode(type, value, opts).pass)

\* C3 (as stated): whenever decode(type, value) succeeds with d, encode(type, d)
\* succeeds with a value equal to the input.  (Stated where decode is asked
\* for no cast and d is valid, so that neither a cast nor what C1 and C2 are
\* about is what breaks it.)
C3_EncodeInvertsDecode ==
  (/\ op = "decode" /\ result.pass /\ opts = Undefined
   /\ Succeeds(validate(type, result.value, options))) =>
    LET encoded == encode(type, result.value, options)
    IN  Succeeds(encoded) /\ SameJson(encoded.value, value)

\* The input is the encoding of a valid value of the type.
IsEncodingOfValid(ty, x) ==
  \E v \in Values :
    /\ Succeeds(validate(ty, v, Undefined))
    /\ encodeWithoutValidation(ty, v) = x

\* C3 (amended): when the input is the encoding of a valid value of the type
\* and decode, asked for no cast, succeeds on it with d, encode(type, d)
\* succeeds with a value equal to the input.
C3_EncodeInvertsDecodeOfEncoded ==
  (op = "decode" /\ result.pass /\ opts = Undefined
     /\ IsEncodingOfValid(type, value)) =>
    LET encoded == encode(type, result.value, options)
    IN  Succeeds(encoded) /\ SameJson(encoded.value, value)

C3_Witness ==
  /\ op = "decode"
  /\ opts = Undefined
  /\ type = optional(nullable(number(Undefined), Undefined), Undefined)
  /\ value = Null
  /\ IsEncodingOfValid(type, value)
  /\ result = success(Null)
  /\ encode(type, result.value, options) = ok(Null)

\* C4: encode returns ok, with the encoded value, when validate succeeds on
\* the value, and returns the failure of validate, errors included, when
\* validate fails.
C4_EncodeFollowsValidate ==
  op = "encode" =>
    LET validated == validate(type, value, options)
    IN  /\ Succeeds(validated) =>
             result = ok(encodeWithoutValidation(type, value))
        /\ Fails(validated) => result = failWithErrors(validated.error)

C4_Witness ==
  /\ op = "encode"
  /\ type = number(Ref(3))
  /\ value = Num(MaxNum + 1)
  /\ Fails(result)
  /\ Len(result.error) = 1

\* The declared fields of the object type that are not optional and for which
\* the value has no property.
MissingFields(t, v) ==
  {i \in 1..Len(t.fields) :
     /\ concretise(t.fields[i].type).kind # "optional"
     /\ ~HasKey(v, t.fields[i].name)}

FailingIndexes(t, items, o) ==
  {i \in 1..Len(items) : ~decodeInternal(t.wrappedType, items[i], o).pass}

Min(S) == CHOOSE m \in S : \A n \in S : m <= n

\* C6: when an element of the array fails to decode, the result is the
\* failure of the lowest failing index alone, its paths starting with that
\* index, and the loop stops there, whatever the errorReportingStrategy; when
\* every element decodes, the result holds the decoded elements in order.
C6_ArrayDecodingFailsFast ==
  LET t == concretise(type)
      asserted == assertArray(value, opts)
  IN  (/\ op = "decode"
       /\ t.kind = "array"
       /\ asserted.pass
       /\ checkArrayOptions(asserted.value, t).pass) =>
        LET items == asserted.value.items
            failing == FailingIndexes(t, items, opts)
        IN  IF failing = {}
            THEN /\ result.pass
                 /\ result.value.t = "array"
                 /\ Len(result.value.items) = Len(items)
                 /\ \A i \in 1..Len(items) :
                      result.value.items[i]
                        = decodeInternal(t.wrappedType, items[i], opts).value
            ELSE LET first == Min(failing)
                     its == decodeInternal(t.wrappedType, items[first], opts)
                 IN  /\ ~result.pass
                     /\ Len(result.errors) = Len(its.errors)
                     /\ \A n \in 1..Len(result.errors) :
                          /\ result.errors[n].error = its.errors[n].error
                          /\ IsPrefix(<<"", NatToString(first - 1)>>,
                                      result.errors[n].path)
                     /\ decodeArrayLoop(items, t, opts, 1, <<>>).at = first

C6_Witness ==
  /\ op = "decode"
  /\ type = array(string(Undefined), Undefined)
  /\ value = Arr(<<Str("a"), Num(2), Num(MaxNum + 1)>>)
  /\ options = [errorReportingStrategy |-> "allErrors"]
  /\ result = errors(<<[error |-> "String expected", value |-> Num(2),
                        path |-> <<"", "1">>]>>)

\* The errors of the validation of each property of the value, each with the
\* name of the property put before its path: all of them, or those of the
\* first property that has some.
RECURSIVE FieldErrors(_, _, _, _, _)
FieldErrors(t, entries, o, i, all) ==
  IF i > Len(entries) THEN <<>>
  ELSE LET validated ==
             internalValidate(FieldType(t.fields, entries[i].k), entries[i].v, o)
           its == IF Fails(validated)
                  THEN prependFieldToPath(validated.error, entries[i].k)
                  ELSE <<>>
       IN  IF its # <<>> /\ ~all THEN its
           ELSE its \o FieldErrors(t, entries, o, i + 1, all)

\* C7 (as stated): the validation of an object value reports, under allErrors,
\* the errors of every failing field, each under the name of its field, and
\* under stopAtFirstError those of the first failing field only.  (Stated for
\* the values whose declared properties are of the shape of their fields.)
C7_ObjectValidationStrategy ==
  LET t == concretise(type)
  IN  (/\ op = "validate"
       /\ t.kind = "object"
       /\ value.t = "object"
       /\ \A i \in 1..Len(value.entries) :
            HasField(t.fields, value.entries[i].k) =>
              ~IsThrown(internalValidate(FieldType(t.fields, value.entries[i].k),
                                         value.entries[i].v, defaultOptions))) =>
        LET all == options # Undefined /\ options.errorReportingStrategy = "allErrors"
            fieldErrors ==
              FieldErrors(t, value.entries,
                          IF options = Undefined THEN defaultOptions ELSE options,
                          1, all)
        IN  /\ ~IsThrown(result)
            /\ IF fieldErrors = <<>> THEN result = succeed
               ELSE result = failWithErrors(fieldErrors)

\* The path of a decoding error names the variant.
Tagged(e, variantName) ==
  "path" \in DOMAIN e /\ \E n \in 1..Len(e.path) : e.path[n] = variantName

\* C8 (as stated): decoding with a union gives the result of the first variant,
\* in the order of the declaration, that decodes the value; when none does,
\* the failure holds the errors of all the variants, each tagged in its path
\* with the name of its variant.
C8_UnionDecoding ==
  LET t == concretise(type)
  IN  (/\ op = "decode"
       /\ t.kind = "union"
       /\ ~CastGqlInputUnion(opts)) =>
        LET Passing == {i \in 1..Len(t.variants) :
                          decodeInternal(t.variants[i].type, value, opts).pass}
        IN  IF Passing # {}
            THEN result = decodeInternal(t.variants[Min(Passing)].type, value, opts)
            ELSE /\ ~result.pass
                 /\ \A i \in 1..Len(t.variants) :
                      \E n \in 1..Len(result.errors) :
                        Tagged(result.errors[n], t.variants[i].name)
                 /\ \A n \in 1..Len(result.errors) :
                      \E i \in 1..Len(t.variants) :
                        Tagged(result.errors[n], t.variants[i].name)

\* The type without its options.
Payload(t) == [t EXCEPT !.options = Undefined]

\* C9: of two types of the same kind and payload, areEqual is false when their
\* options are two objects, whatever these hold, or when one only has options;
\* it is true when their options are one object, or both undefined.
C9_OptionsByReference ==
  LET type1 == concretise(type)
      type2 == concretise(other)
  IN  (op = "areEqual" /\ Payload(type1) = Payload(type2)) =>
        result = Bool(type1.options = type2.options)

C9_Witness ==
  /\ op = "areEqual"
  /\ type = number(Ref(1))
  /\ other = number(Ref(2))
  /\ OptionsHeap[type.options.ref] = OptionsHeap[other.options.ref]
  /\ result = Bool(FALSE)

\* C10 (as stated): for an object type T, partialDeep(partialDeep(T)) and
\* partialDeep(T) are areEqual.
C10_PartialDeepIdempotent ==
  (op = "partialDeep" /\ ~IsFunction(type) /\ type.kind = "object") =>
    areEqual(partialDeep(result), result) = Bool(TRUE)

\* C11: the traversals end on cyclic schemas.  decode and validate are total
\* on every lazily defined schema and every value of the model (their
\* recursion follows the value), and areEqual ends for every pair of
\* schemas: its result is a boolean, never the RangeError of a recursion
\* that does not end, also for two separately defined self-referential
\* schemas of the same structure.
C11_AreEqualTerminates ==
  op = "areEqual" => result \in {Bool(TRUE), Bool(FALSE)}

\* The set of the elements of a sequence.
Range(q) == {q[i] : i \in 1..Len(q)}

\* C12: for two enum types with the same options, areEqual is true exactly
\* when the two lists of variants denote the same set of strings, whatever
\* the order of the variants and however often a variant is repeated.
C12_EnumSetEquality ==
  (/\ op = "areEqual"
   /\ concretise(type).kind = "enum"
   /\ concretise(other).kind = "enum"
   /\ concretise(type).options = concretise(other).options)
    => (result = Bool(TRUE))
         = (Range(concretise(type).variants) = Range(concretise(other).variants))

\* The names of the fields of an object type, as a set.
NamesOf(t) == Range(FieldNames(t.fields))

\* No field name occurs twice.
DistinctNames(t) == Cardinality(NamesOf(t)) = Len(t.fields)

\* C13: merge(one, other) resolves to an object type whose field names are
\* exactly those of one and of other; a field of both has the type it has
\* in other, every other field the type it had; the options are the options
\* argument, whatever the options of one and of other.
C13_MergeFields ==
  op = "merge" =>
    LET merged == concretise(result)
        one == concretise(type)
        two == concretise(other)
    IN  /\ merged.kind = "object"
        /\ DistinctNames(merged)
        /\ NamesOf(merged) = NamesOf(one) \cup NamesOf(two)
        /\ \A name \in NamesOf(merged) :
             FieldType(merged.fields, name) =
               IF name \in NamesOf(two) THEN FieldType(two.fields, name)
               ELSE FieldType(one.fields, name)
        /\ merged.options = args.options

\* A merge of two objects with options, that share a field of two different
\* types and have each a field of their own, resolved.
C13_Witness ==
  /\ op = "merge"
  /\ resolutions > 0
  /\ resolved = concretise(result)
  /\ LET one == concretise(type)
         two == concretise(other)
     IN  /\ \E name \in NamesOf(one) \cap NamesOf(two) :
               FieldType(one.fields, name) # FieldType(two.fields, name)
         /\ NamesOf(one) \ NamesOf(two) # {}
         /\ NamesOf(two) \ NamesOf(one) # {}
         /\ one.options # Undefined
         /\ two.options # Undefined
         /\ one.options # two.options
         /\ args.options = Undefined

\* C14: partial(obj) resolves to an object with the field names of obj, in
\* which a reference field and an already optional field have the type they
\* had and every other field is its type in one optional; partial applied to
\* its own result changes no field.
C14_PartialFields ==
  op = "partial" =>
    LET obj == concretise(type)
        made == concretise(result)
    IN  /\ made.kind = "object"
        /\ FieldNames(made.fields) = FieldNames(obj.fields)
        /\ \A i \in 1..Len(obj.fields) :
             made.fields[i].type =
               IF isReference(obj.fields[i].type) \/ isOptional(obj.fields[i].type)
               THEN obj.fields[i].type
               ELSE optional(obj.fields[i].type, Undefined)
        /\ concretise(partial(result, args.options)).fields = made.fields

RECURSIVE ReferenceUnderWrappers(_)
\* The type is a reference, directly or under optional and nullable wrappers.
ReferenceUnderWrappers(t) ==
  LET concreteType == concretise(t)
  IN  \/ concreteType.kind = "reference"
      \/ /\ concreteType.kind \in {"optional", "nullable"}
         /\ ReferenceUnderWrappers(concreteType.wrappedType)

\* C15: omitReferences(obj) resolves to an object type with exactly the
\* fields of obj for which isReference is false, each with the type it had;
\* no field of the result is a reference, directly or under optional and
\* nullable wrappers.
C15_OmitReferencesFields ==
  op = "omitReferences" =>
    LET obj == concretise(type)
        made == concretise(result)
    IN  /\ made.kind = "object"
        /\ DistinctNames(made)
        /\ NamesOf(made) =
             {obj.fields[i].name : i \in {j \in 1..Len(obj.fields) :
                                            ~isReference(obj.fields[j].type)}}
        /\ \A name \in NamesOf(made) :
             FieldType(made.fields, name) = FieldType(obj.fields, name)
        /\ \A i \in 1..Len(made.fields) :
             ~ReferenceUnderWrappers(made.fields[i].type)

\* An object with a reference field, a reference under an optional, an array
\* of references and a lazy field, its references omitted and the result
\* resolved.
C15_Witness ==
  /\ op = "omitReferences"
  /\ resolutions > 0
  /\ resolved = concretise(result)
  /\ LET obj == concretise(type)
     IN  /\ \E i \in 1..Len(obj.fields) : obj.fields[i].type.kind = "reference"
         /\ \E i \in 1..Len(obj.fields) :
              /\ obj.fields[i].type.kind = "optional"
              /\ isReference(obj.fields[i].type)
         /\ \E i \in 1..Len(obj.fields) :
              /\ obj.fields[i].type.kind = "array"
              /\ HasField(resolved.fields, obj.fields[i].name)
         /\ Len(resolved.fields) < Len(obj.fields)
         /\ Len(resolved.fields) > 0

\* The object pick gives for the state's type and arguments, and the one omit
\* gives: the result of the action for the helper applied, the helper on the
\* same arguments for the other.
PickedObject ==
  IF op = "pick" THEN concretise(result)
  ELSE concretise(pick(type, args.fields, args.options))

OmittedObject ==
  IF op = "omit" THEN concretise(result)
  ELSE concretise(omit(type, args.fields, args.options))

\* C16: pick and omit partition the fields of an object.  For a selection F
\* (field name -> true), pick(obj, F) has exactly the fields of obj that F
\* selects and omit(obj, F) exactly those it does not select; the two sets
\* of fields are disjoint, together they are the fields of obj, and a kept
\* field has the type it had.
C16_PickOmitPartition ==
  op \in {"pick", "omit"} =>
    LET obj == concretise(type)
        chosen == {name \in NamesOf(obj) : HasKey(args.fields, name)}
    IN  /\ PickedObject.kind = "object"
        /\ OmittedObject.kind = "object"
        /\ DistinctNames(PickedObject)
        /\ DistinctNames(OmittedObject)
        /\ NamesOf(PickedObject) = chosen
        /\ NamesOf(OmittedObject) = NamesOf(obj) \ chosen
        /\ NamesOf(PickedObject) \cap NamesOf(OmittedObject) = {}
        /\ NamesOf(PickedObject) \cup NamesOf(OmittedObject) = NamesOf(obj)
        /\ \A name \in NamesOf(PickedObject) :
             FieldType(PickedObject.fields, name) = FieldType(obj.fields, name)
        /\ \A name \in NamesOf(OmittedObject) :
             FieldType(OmittedObject.fields, name) = FieldType(obj.fields, name)

\* A selection that names a field of the object, leaves another and names a
\* field the object does not have; the result of omit resolved.
C16_Witness ==
  /\ op = "omit"
  /\ resolutions > 0
  /\ resolved = OmittedObject
  /\ NamesOf(PickedObject) # {}
  /\ NamesOf(OmittedObject) # {}
  /\ \E k \in Range(Keys(args.fields)) : k \notin NamesOf(concretise(type))

\* The helpers of the object algebra.
Helpers == {"merge", "pick", "omit", "omitReferences", "partial", "partialDeep"}

\* The helper applied was given a lazy type.
LazyArgument == IsFunction(type) \/ (op = "merge" /\ IsFunction(other))

\* C17: a helper given a lazy type returns a lazy type and invokes no
\* producer before it returns; the producer is invoked when the returned
\* type is resolved, at each resolution again.  partialDeep of a lazy type,
\* a self-referential one included, returns the function over the type
\* itself: nothing of the schema is unrolled.
C17_HelpersPreserveLaziness ==
  (op \in Helpers /\ LazyArgument) =>
    /\ IsFunction(result)
    /\ resolutions = 0 => calls = 0
    /\ invocationsOfConcretise(result) >= 1
    /\ calls = resolutions * invocationsOfConcretise(result)
    /\ op = "partialDeep" => result = thunk(type)

\* A helper given a lazy type, its result resolved twice, the producer
\* invoked each time.
C17_Witness ==
  /\ op \in Helpers \ {"partialDeep"}
  /\ IsFunction(type)
  /\ resolutions = MaxResolutions
  /\ calls >= MaxResolutions
  /\ resolved = concretise(result)
  /\ resolved.kind = "object"

\* partialDeep of the self-referential schema, its result resolved: the
\* field `children` holds an array of the function over `tree`.
C17_WitnessPartialDeep ==
  /\ op = "partialDeep"
  /\ type = lazy("tree")
  /\ resolutions > 0
  /\ FieldType(resolved.fields, "children") =
       optional(array(thunk(lazy("tree")), Undefined), Undefined)

RECURSIVE OnWrapperChain(_, _)
\* The kind occurs on the chain of wrappedType links that starts at the
\* concrete type t and goes on through optional, nullable and reference
\* wrappers only.
OnWrapperChain(t, kind) ==
  \/ t.kind = kind
  \/ /\ t.kind \in {"optional", "nullable", "reference"}
     /\ OnWrapperChain(concretise(t.wrappedType), kind)

\* The kind each predicate looks for.
TargetKind ==
  [isOptional |-> "optional", isNullable |-> "nullable",
   isReference |-> "reference", isArray |-> "array"]

\* C18: isOptional, isNullable, isReference and isArray are true exactly
\* when their kind occurs on the chain of wrappers of the concretised type,
\* a chain that goes through optional, nullable and reference and stops at
\* an array: an array of optionals is not optional, an array of references
\* is not a reference, a reference to an optional is optional.
C18_WrapperPredicates ==
  /\ op \in DOMAIN TargetKind =>
       result = Bool(OnWrapperChain(concretise(type), TargetKind[op]))
  /\ (op = "isOptional" /\ type = array(optional(number(Undefined), Undefined), Undefined))
       => result = Bool(FALSE)
  /\ (op = "isReference" /\ type = array(reference(number(Undefined), Undefined), Undefined))
       => result = Bool(FALSE)
  /\ (op = "isOptional" /\ type = reference(optional(number(Undefined), Undefined), Undefined))
       => result = Bool(TRUE)

\* isOptional applied to number().optional().array().
C18_Witness ==
  /\ op = "isOptional"
  /\ type = array(optional(number(Undefined), Undefined), Undefined)
  /\ result = Bool(FALSE)

\* C19: isScalar(type) is true exactly when unwrap(type) is neither an
\* object nor a union and isArray(type) is false; unwrap(type) is a concrete
\* type without wrappedType, never an optional, a nullable, a reference or
\* an array.
C19_ScalarAndUnwrap ==
  /\ op = "isScalar" =>
       result = Bool(/\ unwrap(type).kind \notin {"object", "union"}
                     /\ ~isArray(type))
  /\ op = "unwrap" =>
       /\ ~IsFunction(result)
       /\ "wrappedType" \notin DOMAIN result
       /\ result.kind \notin {"optional", "nullable", "reference", "array"}

\* isScalar applied to an array under an optional: the unwrapped type is a
\* number and the type is an array.
C19_Witness ==
  /\ op = "isScalar"
  /\ concretise(type).kind = "optional"
  /\ isArray(type)
  /\ unwrap(type).kind = "number"
  /\ result = Bool(FALSE)

\* The longest chain of producers followed.
MaxChain == 3

RECURSIVE Reached(_, _)
\* The value reached from t by n calls, a value that is not a function
\* being the end of the chain.
Reached(t, n) ==
  IF n = 0 \/ ~IsFunction(t) THEN t ELSE Reached(Call(t), n - 1)

\* C20: concretise(type) is the first value that is not a function among
\* type, type(), type()(), ...: it is never a function, it is the type
\* itself when the type is not lazy, and concretise of it is itself.
C20_ConcretiseFirstConcrete ==
  op = "concretise" =>
    /\ ~IsFunction(result)
    /\ \E n \in 0..MaxChain :
         /\ result = Reached(type, n)
         /\ \A m \in 0..(n - 1) : IsFunction(Reached(type, m))
    /\ ~IsFunction(type) => result = type
    /\ concretise(result) = result

\* concretise applied to a producer that produces a producer.
C20_Witness ==
  /\ op = "concretise"
  /\ IsFunction(type)
  /\ IsFunction(Call(type))
  /\ result = Call(Call(type))

\* The assertions of the constraints a number violates, in the order
\* maximum, exclusiveMaximum, minimum, exclusiveMinimum, integer; a
\* constraint is configured when its option is set, whatever its value.
ViolatedConstraints(t, v) ==
  (IF HasOption(t, "maximum") /\ v.h > Option(t, "maximum")
   THEN <<"number must be less than or equal to">> ELSE <<>>)
  \o (IF HasOption(t, "exclusiveMaximum") /\ v.h >= Option(t, "exclusiveMaximum")
      THEN <<"number must be less than to">> ELSE <<>>)
  \o (IF HasOption(t, "minimum") /\ v.h < Option(t, "minimum")
      THEN <<"number must be greater than or equal to">> ELSE <<>>)
  \o (IF HasOption(t, "exclusiveMinimum") /\ v.h <= Option(t, "exclusiveMinimum")
      THEN <<"number must be greater than">> ELSE <<>>)
  \o (IF HasOption(t, "isInteger") /\ Option(t, "isInteger") /\ v.h % 2 # 0
      THEN <<"number must be an integer">> ELSE <<>>)

\* C22: the validation of a number fails exactly when the number violates a
\* configured constraint, bounds of zero and negative bounds included, and
\* the one error reported is that of the first violated constraint in the
\* order maximum, exclusiveMaximum, minimum, exclusiveMinimum, integer.
C22_NumberConstraints ==
  LET t == concretise(type)
  IN  (/\ op = "validate"
       /\ t.kind = "number"
       /\ value.t = "number"
       /\ ~IsNaN(value))
        => LET violated == ViolatedConstraints(t, value)
           IN  IF violated = <<>> THEN Succeeds(result)
               ELSE /\ Fails(result)
                    /\ result.error =
                         <<[assertion |-> violated[1], got |-> value, path |-> <<>>]>>

\* The errors of the validation of each element of the array, each with the
\* index of the element put before its path: all of them, or those of the
\* first element that has some.
RECURSIVE ElementErrors(_, _, _, _, _)
ElementErrors(t, items, o, i, all) ==
  IF i > Len(items) THEN <<>>
  ELSE LET validated == internalValidate(t.wrappedType, items[i], o)
           its == IF Fails(validated)
                  THEN prependIndexToPath(validated.error, i - 1)
                  ELSE <<>>
       IN  IF its # <<>> /\ ~all THEN its
           ELSE its \o ElementErrors(t, items, o, i + 1, all)

\* C23: the validation of an array checks maxItems, then minItems, and then
\* validates every element against the wrapped type, for an array type with
\* options and for one without: an invalid element makes the validation
\* fail, its errors have the index of the element before their path, and
\* the elements are processed under stopAtFirstError up to the first that
\* fails and under allErrors all of them.  (Stated for the arrays whose
\* elements are of the shape of the wrapped type.)
C23_ArrayValidation ==
  LET t == concretise(type)
  IN  (/\ op = "validate"
       /\ t.kind = "array"
       /\ value.t = "array"
       /\ \A i \in 1..Len(value.items) :
            ~IsThrown(internalValidate(t.wrappedType, value.items[i], defaultOptions))) =>
        LET all == options # Undefined /\ options.errorReportingStrategy = "allErrors"
            elementErrors ==
              ElementErrors(t, value.items,
                            IF options = Undefined THEN defaultOptions ELSE options,
                            1, all)
        IN  IF HasOption(t, "maxItems") /\ Len(value.items) > Option(t, "maxItems")
            THEN result = fail("array must have at most items", value)
            ELSE IF HasOption(t, "minItems") /\ Len(value.items) < Option(t, "minItems")
            THEN result = fail("array must have at least items", value)
            ELSE IF elementErrors = <<>> THEN result = succeed
            ELSE result = failWithErrors(elementErrors)

\* The variants of the union whose discriminator check accepts the value.
AcceptingVariants(t, v) ==
  {i \in 1..Len(t.variants) :
     /\ t.variantsChecks # Undefined
     /\ HasField(t.variantsChecks.checks, t.variants[i].name)
     /\ VariantCheck(FieldType(t.variantsChecks.checks, t.variants[i].name), v)}

\* C24: the validation of a union validates the value against one variant,
\* the first in the order of the declaration whose check accepts the value,
\* and puts the name of that variant before the path of its errors; the
\* variants after it are not consulted.  When no check accepts the value, or
\* the union has no checks, the result is a failure with one error, its path
\* empty.
C24_UnionValidation ==
  LET t == concretise(type)
      o == IF options = Undefined THEN defaultOptions ELSE options
  IN  (op = "validate" /\ t.kind = "union") =>
        IF AcceptingVariants(t, value) = {}
        THEN /\ Fails(result)
             /\ Len(result.error) = 1
             /\ result.error[1].path = <<>>
        ELSE LET first == t.variants[Min(AcceptingVariants(t, value))]
                 validated == internalValidate(first.type, value, o)
             IN  IF Fails(validated)
                 THEN /\ Fails(result)
                      /\ result.error = prependVariantToPath(validated.error, first.name)
                      /\ \A n \in 1..Len(result.error) :
                           result.error[n].path[1] = VariantSegment(first.name)
                 ELSE result = validated

\* A value that two checks accept, invalid for the first variant and valid
\* for the second: the failure is that of the first variant.
C24_Witness ==
  LET t == concretise(type)
  IN  /\ op = "validate"
      /\ t.kind = "union"
      /\ Cardinality(AcceptingVariants(t, value)) = 2
      /\ Fails(internalValidate(t.variants[1].type, value, defaultOptions))
      /\ Succeeds(internalValidate(t.variants[2].type, value, defaultOptions))
      /\ Fails(result)
      /\ result.error[1].path = <<VariantSegment(t.variants[1].name)>>

RECURSIVE DecodedAt(_, _, _)
\* The sub-value the keys path[i], path[i + 1], ... lead to from v.
DecodedAt(v, path, i) ==
  IF i > Len(path) THEN v ELSE DecodedAt(Get(v, path[i]), path, i + 1)

RECURSIVE ValidatedAt(_, _, _)
\* The sub-value the segments of the path lead to from v: a field and an
\* index go one level down, a variant stays on the value.
ValidatedAt(v, path, i) ==
  IF i > Len(path) THEN v
  ELSE CASE "field" \in DOMAIN path[i] ->
              ValidatedAt(Get(v, path[i].field), path, i + 1)
         [] "index" \in DOMAIN path[i] ->
              ValidatedAt(Get(v, NatToString(path[i].index)), path, i + 1)
         [] OTHER -> ValidatedAt(v, path, i + 1)

NonStrict(t) == ~(HasOption(t, "strict") /\ Option(t, "strict"))

\* The value the field `key` of the object type decodes the property `key`
\* of the input to.
DecodedField(t, v, key, o) == decodeInternal(FieldType(t.fields, key), Get(v, key), o).value

\* What a successful decode with a non-strict object type returns: an object
\* with every property of the input, a declared field holding its decoded
\* value, an undeclared property the value it had, and with no property the
\* input does not have except the declared fields that decode to a value.
PermissiveDecode ==
  LET t == concretise(type)
  IN  (/\ op = "decode"
       /\ t.kind = "object"
       /\ NonStrict(t)
       /\ result.pass) =>
        /\ result.value.t = "object"
        /\ \A key \in Range(Keys(value)) :
             /\ HasKey(result.value, key)
             /\ Get(result.value, key) =
                  IF HasField(t.fields, key) /\ DecodedField(t, value, key, opts) # Undefined
                  THEN DecodedField(t, value, key, opts)
                  ELSE Get(value, key)
        /\ \A key \in Range(Keys(result.value)) \ Range(Keys(value)) :
             /\ HasField(t.fields, key)
             /\ Get(result.value, key) = DecodedField(t, value, key, opts)
        /\ \A key \in NamesOf(t) \ Range(Keys(value)) :
             DecodedField(t, value, key, opts) = Undefined
               => ~HasKey(result.value, key)

\* C26: the decoding of an object is permissive and does not touch its
\* input.  For a non-strict object type a successful decode returns a new
\* object with every property of the input (a declared field replaced by its
\* decoded value, an undeclared property copied, a field that decodes to
\* undefined left absent); the input is the same after a decode, successful
\* or failed.
C26_PermissiveObjectDecoding ==
  /\ []PermissiveDecode
  /\ [][op' = "decode" => value' = value]_vars

\* A successful decode of an object that has an undeclared property and
\* lacks an optional field.
C26_Witness ==
  LET t == concretise(type)
  IN  /\ op = "decode"
      /\ t.kind = "object"
      /\ NonStrict(t)
      /\ result.pass
      /\ \E key \in Range(Keys(value)) : ~HasField(t.fields, key)
      /\ \E key \in Range(Keys(value)) : HasField(t.fields, key)
      /\ \E key \in NamesOf(t) : ~HasKey(value, key) /\ ~HasKey(result.value, key)

\* C27: areEqual is an equivalence on types: a type is equal to itself, and
\* areEqual(a, b) is areEqual(b, a) for every pair of types, enums with
\* repeated variants and objects and unions with different keys included.
C27_AreEqualEquivalence ==
  op = "areEqual" =>
    /\ type = other => result = Bool(TRUE)
    /\ result = areEqual(other, type)

\* validate under the other strategy of error reporting.
ValidatedUnder(strategy) ==
  validate(type, value, [errorReportingStrategy |-> strategy])

\* C28: under stopAtFirstError, the default, a validation that fails on a
\* type built without custom types returns one error, at every depth of
\* objects, arrays, unions and wrappers; under allErrors the list returned
\* holds that error first.
C28_OneErrorUnderStopAtFirst ==
  (op = "validate" /\ concretise(type).kind # "custom") =>
    /\ (/\ (options = Undefined \/ options.errorReportingStrategy = "stopAtFirstError")
        /\ Fails(result)) =>
         /\ Len(result.error) = 1
         /\ Fails(ValidatedUnder("allErrors"))
         /\ ValidatedUnder("allErrors").error[1] = result.error[1]
    /\ (/\ options # Undefined
        /\ options.errorReportingStrategy = "allErrors"
        /\ Fails(result)) =>
         /\ Fails(ValidatedUnder("stopAtFirstError"))
         /\ ValidatedUnder("stopAtFirstError").error = <<result.error[1]>>

-----------------------------------------------------------------------------
(* The Result type: ok(value) and Failure(error), and its combinators.     *)
(* Each combinator gives what it returns and how many times it invoked     *)
(* the function it was given.                                              *)

Failure(e) == [isOk |-> FALSE, error |-> e]

\* The functions handed to the combinators.
Callback(name) == [callback |-> name]

\* f(x) for the functions handed to the combinators.
Invoke(f, x) ==
  CASE f.callback = "increment" ->
         IF x.t = "number" THEN Num(x.h + 2) ELSE Str(x.s \o "1")
    [] f.callback = "okOfIncrement" ->
         ok(IF x.t = "number" THEN Num(x.h + 2) ELSE Str(x.s \o "1"))
    [] f.callback = "failWithError" -> Failure(Str("error"))
    [] f.callback = "one" -> Num(2)
    [] f.callback = "okOfOne" -> ok(Num(2))
    [] f.callback = "failWithA" -> Failure(Str("a"))

Returned(v, n) == [returned |-> v, invoked |-> n]

\* then invoking its callback on both variants.
thenOnBothVariants(r, f) ==
  Returned(Invoke(f, IF r.isOk THEN r.value ELSE r.error), 1)

then(r, f) ==
  IF r.isOk THEN Returned(Invoke(f, r.value), 1) ELSE Returned(r, 0)

map(r, f) ==
  IF r.isOk THEN Returned(ok(Invoke(f, r.value)), 1) ELSE Returned(r, 0)

mapError(r, f) ==
  IF r.isOk THEN Returned(r, 0) ELSE Returned(Failure(Invoke(f, r.error)), 1)

replace(r, v) == IF r.isOk THEN Returned(ok(v), 0) ELSE Returned(r, 0)

unwrapOr(r, fallback) ==
  IF r.isOk THEN Returned(r.value, 0) ELSE Returned(fallback, 0)

lazyUnwrap(r, f) ==
  IF r.isOk THEN Returned(r.value, 0) ELSE Returned(Invoke(f, r.error), 1)

or(r, fallback) == IF r.isOk THEN Returned(r, 0) ELSE Returned(fallback, 0)

lazyOr(r, f) ==
  IF r.isOk THEN Returned(r, 0) ELSE Returned(Invoke(f, r.error), 1)

match(r, f, g) ==
  IF r.isOk THEN Returned(Invoke(f, r.value), 1)
            ELSE Returned(Invoke(g, r.error), 1)

\* The results the combinators are called on.
Receivers ==
  {ok(Num(0)), ok(Num(2)), ok(Num(4)), ok(Str("a")),
   Failure(Str("error")), Failure(Str("a")), Failure(Num(2)), Failure(Num(4))}

Fallbacks == {Num(0), Num(2)}

OtherResults == {ok(Num(2)), Failure(Str("a"))}

ResultInit ==
  /\ op = "init"
  /\ result = NoResult
  /\ args = Undefined
  /\ calls = 0
  /\ resolutions = 0
  /\ resolved = NoResult
  /\ type = Undefined
  /\ other = Undefined
  /\ opts = Undefined
  /\ options = Undefined
  /\ value \in Receivers

\* A combinator of the result `value` applied to the argument a.
Combinator(name, r, a) == Helper(name, r.returned, a, r.invoked)

Then ==
  \E f \in {Callback("okOfIncrement"), Callback("failWithError")} :
    Combinator("then", then(value, f), f)

Map == LET f == Callback("increment") IN Combinator("map", map(value, f), f)

MapError ==
  LET f == Callback("increment") IN Combinator("mapError", mapError(value, f), f)

Replace ==
  \E v \in Fallbacks :
    Combinator("replace", replace(value, v), [fallback |-> v])

UnwrapOr ==
  \E v \in Fallbacks :
    Combinator("unwrap", unwrapOr(value, v), [fallback |-> v])

LazyUnwrap ==
  LET f == Callback("one") IN Combinator("lazyUnwrap", lazyUnwrap(value, f), f)

Or ==
  \E v \in OtherResults : Combinator("or", or(value, v), [fallback |-> v])

LazyOr ==
  \E f \in {Callback("okOfOne"), Callback("failWithA")} :
    Combinator("lazyOr", lazyOr(value, f), f)

Match ==
  \E f \in {Callback("increment"), Callback("one")} :
    LET g == Callback("failWithA")
    IN Combinator("match", match(value, f, g), [ok |-> f, failure |-> g])

ResultNext ==
  \/ Then
  \/ Map
  \/ MapError
  \/ Replace
  \/ UnwrapOr
  \/ LazyUnwrap
  \/ Or
  \/ LazyOr
  \/ Match

ResultSpec == ResultInit /\ [][ResultNext]_vars

\* C21: the combinators of a Result act only on their own variant. On a
\* Failure, then, map and replace invoke no callback and return a Failure with
\* the same error; on an Ok, mapError, lazyUnwrap and lazyOr invoke nothing and
\* keep the original value; on an Ok, then returns what its callback returns,
\* an Ok or a Failure; unwrap and or return the fallback on a Failure only.
C21_CombinatorsActOnTheirVariant ==
  /\ (op \in {"then", "map", "replace"} /\ ~value.isOk) =>
       /\ calls = 0
       /\ ~result.isOk
       /\ result.error = value.error
  /\ (op \in {"mapError", "lazyOr"} /\ value.isOk) =>
       /\ calls = 0
       /\ result.isOk
       /\ result.value = value.value
  /\ (op = "lazyUnwrap" /\ value.isOk) =>
       /\ calls = 0
       /\ result = value.value
  /\ (op = "then" /\ value.isOk) =>
       /\ calls = 1
       /\ result = Invoke(args, value.value)
  /\ op = "unwrap" =>
       result = IF value.isOk THEN value.value ELSE args.fallback
  /\ op = "or" => result = IF value.isOk THEN value ELSE args.fallback

\* then on an Ok whose callback returns a Failure.
C21_Witness ==
  /\ op = "then"
  /\ value.isOk
  /\ ~result.isOk
  /\ calls = 1

-----------------------------------------------------------------------------
(* The middlewares that module.build puts around every function.  A        *)
(* function is its output type, the errors it declares (undefined when it  *)
(* declares none) and its own middlewares; a retrieve and a module's        *)
(* options are values, an absent property reading undefined.                *)

entity(fields) == [kind |-> "entity", fields |-> fields, options |-> Undefined]

\* retrieve.selectionDepth(type, retrieve); model.match takes the types with
\* a wrappedType as wrappers.
RECURSIVE selectionDepth(_, _)

\* The depth one field of an entity adds, the callback mapped over
\* Object.entries(fields).
fieldSelectionDepth(f, retrieve) ==
  LET select == Get(retrieve, "select")
      selection == Get(select, f.name)
  IN  IF ~Truthy(select) THEN 1
      ELSE IF unwrap(f.type).kind = "entity" /\ TypeOf(selection) = "object"
      THEN selectionDepth(f.type, selection) + 1
      ELSE IF unwrap(f.type).kind = "entity" /\ selection = Bool(TRUE)
      THEN 2
      ELSE 1

selectionDepth(ty, retrieve) ==
  LET t == concretise(ty)
      depths == {fieldSelectionDepth(t.fields[i], retrieve) : i \in 1..Len(t.fields)}
  IN  IF "wrappedType" \in DOMAIN t THEN selectionDepth(t.wrappedType, retrieve)
      ELSE IF t.kind = "entity"
      THEN IF depths = {} THEN 0 ELSE CHOOSE d \in depths : \A e \in depths : e <= d
      ELSE 1

\* The middleware checkMaxSelectionDepth(maxDepth) returns.
checkMaxSelectionDepth(maxDepth) ==
  [name |-> "Check max selection depth", maxDepth |-> maxDepth]

\* The middleware checkOutputType(functionName, onFailure) returns.
checkOutputType(onFailure) ==
  [name |-> "Check output type", onFailure |-> onFailure]

MaxSelectionDepthReached == [thrown |-> "MaxSelectionDepthReached"]

\* return next(args)
NextCalledWith(a) == [next |-> a]

\* checkMaxSelectionDepth(maxDepth).apply(args, next, thisFunction), a the
\* retrieve of args: what it returns or throws, and its calls of next.
applyCheckMaxSelectionDepth(m, a, thisFunction) ==
  LET depth == selectionDepth(thisFunction.output,
                              IF a = Undefined THEN Obj(<<>>) ELSE a)
  IN  IF 2 * depth > m.maxDepth.h
      THEN Returned(MaxSelectionDepthReached, 0)
      ELSE Returned(NextCalledWith(a), 1)

InvalidOutputValue(errs) == [thrown |-> "InvalidOutputValue", errors |-> errs]

Logged == [logged |-> TRUE]

handleFailure(onFailure, r) ==
  IF onFailure = "log" THEN Logged ELSE InvalidOutputValue(r.error)

IsFailure(r) == "isOk" \in DOMAIN r /\ ~r.isOk

\* type.decode(value, options) as a Result, by the decoder above.
decodeAsResult(t, v) ==
  LET r == decode(t, v, Undefined)
  IN  IF r.pass THEN ok(r.value) ELSE Failure(r.errors)

\* utils.decodeFunctionFailure(error, errors, options): the error decoded as
\* one of the declared errors.
decodeFunctionFailure(e, errs) == decodeAsResult(errs, e)

\* retrieve.selectedType(type, retrieve) of a type that is no entity, object,
\* union or wrapper: the otherwise case of both of its matches.
selectedType(t, retrieve) == t

\* The branch of apply for a failed call of a function that declares errors,
\* errorDecodeResult the error decoded.
checkedFailure(onFailure, nextRes, errorDecodeResult) ==
  IF ~errorDecodeResult.isOk /\ onFailure # "log"
  THEN handleFailure(onFailure, errorDecodeResult)
  ELSE IF errorDecodeResult.isOk
  THEN Failure(errorDecodeResult.value)
  ELSE nextRes

\* The branch of apply for an output value, valueDecodeResult the value
\* decoded as the type to respect.
checkedOutput(onFailure, thisFunction, outputValue, valueDecodeResult) ==
  IF ~valueDecodeResult.isOk
  THEN IF onFailure # "log"
       THEN handleFailure(onFailure, valueDecodeResult)
       ELSE outputValue
  ELSE IF thisFunction.errors # Undefined
  THEN ok(valueDecodeResult.value)
  ELSE valueDecodeResult.value

\* checkOutputType(functionName, onFailure).apply(args, next, thisFunction),
\* nextRes what next(args) resolved to and retrieve the retrieve of args.
applyCheckOutputType(onFailure, nextRes, retrieve, thisFunction) ==
  IF thisFunction.errors # Undefined /\ IsFailure(nextRes)
  THEN checkedFailure(onFailure, nextRes,
                      decodeFunctionFailure(nextRes.error, thisFunction.errors))
  ELSE LET outputValue ==
             IF thisFunction.errors # Undefined THEN nextRes.value ELSE nextRes
       IN  checkedOutput(onFailure, thisFunction, outputValue,
                         decodeAsResult(selectedType(thisFunction.output, retrieve),
                                        outputValue))

\* module.options?.checks?.output and module.options?.checks?.maxProjectionDepth
ChecksOf(moduleOptions) ==
  IF moduleOptions = Undefined THEN Undefined ELSE Get(moduleOptions, "checks")

OutputOf(moduleOptions) == Get(ChecksOf(moduleOptions), "output")

MaxProjectionDepthOf(moduleOptions) ==
  Get(ChecksOf(moduleOptions), "maxProjectionDepth")

\* build with the output check ahead of the function's own middlewares.
buildOutputCheckFirst(moduleOptions, middlewares) ==
  (IF MaxProjectionDepthOf(moduleOptions) # Undefined
   THEN <<checkMaxSelectionDepth(MaxProjectionDepthOf(moduleOptions))>>
   ELSE <<>>)
    \o (IF OutputOf(moduleOptions) # Str("ignore")
        THEN <<checkOutputType(IF OutputOf(moduleOptions) = Undefined
                               THEN "throw" ELSE OutputOf(moduleOptions).s)>>
        ELSE <<>>)
    \o (IF middlewares = Undefined THEN <<>> ELSE middlewares.items)

\* The middlewares build gives to a function of the module whose own
\* middlewares are `middlewares` (an array, or undefined).
build(moduleOptions, middlewares) ==
  LET maxProjectionDepthMiddleware ==
        IF MaxProjectionDepthOf(moduleOptions) \notin {Undefined, Null}
        THEN <<checkMaxSelectionDepth(MaxProjectionDepthOf(moduleOptions))>>
        ELSE <<>>
      checkOutputTypeMiddleware ==
        IF OutputOf(moduleOptions) \in {Undefined, Null}
             \/ OutputOf(moduleOptions) # Str("ignore")
        THEN <<checkOutputType(IF OutputOf(moduleOptions) \in {Undefined, Null}
                               THEN "throw" ELSE OutputOf(moduleOptions).s)>>
        ELSE <<>>
  IN  maxProjectionDepthMiddleware
        \o (IF middlewares = Undefined THEN <<>> ELSE middlewares.items)
        \o checkOutputTypeMiddleware

Post == entity(<<Field("title", string(Undefined))>>)

User ==
  entity(<<Field("name", string(Undefined)), Field("posts", array(Post, Undefined))>>)

Blog == entity(<<Field("owner", optional(User, Undefined))>>)

OutputTypes == {number(Undefined), string(Undefined), Post, User, Blog}

DeclaredErrors ==
  {Undefined, object(<<Field("notFound", string(Undefined))>>, Undefined)}

Selecting(k, v) == Obj(<<Prop("select", Obj(<<Prop(k, v)>>))>>)

Retrieves ==
  {Undefined, Obj(<<>>), Selecting("name", Bool(TRUE)),
   Selecting("posts", Bool(TRUE)), Selecting("posts", Obj(<<>>)),
   Selecting("posts", Selecting("title", Bool(TRUE))),
   Selecting("owner", Bool(TRUE)),
   Selecting("owner", Selecting("posts", Bool(TRUE))),
   Selecting("owner", Selecting("posts", Selecting("title", Bool(TRUE))))}

ModuleOptions ==
  {Undefined, Obj(<<>>)}
    \cup {Obj(<<Prop("checks", Obj(<<Prop("output", o)>>))>>) :
            o \in {Str("ignore"), Str("log"), Str("throw")}}
    \cup {Obj(<<Prop("checks", Obj(<<Prop("maxProjectionDepth", d)>>))>>) :
            d \in {Num(0), Num(2), Num(4), Num(6)}}
    \cup {Obj(<<Prop("checks", Obj(<<Prop("output", o),
                                      Prop("maxProjectionDepth", d)>>))>>) :
            o \in {Str("ignore"), Str("log")}, d \in {Num(2), Num(4)}}

OwnMiddleware(name) == [name |-> name]

OwnMiddlewares ==
  {Undefined, Arr(<<>>), Arr(<<OwnMiddleware("first")>>),
   Arr(<<OwnMiddleware("first"), OwnMiddleware("second")>>),
   Arr(<<OwnMiddleware("second"), OwnMiddleware("first")>>)}

\* What the function resolves to: a Result when it declares errors.
Outputs(errs) ==
  IF errs = Undefined
  THEN {Num(2), Str("a")}
  ELSE {ok(Num(2)), ok(Str("a")),
        Failure(Obj(<<Prop("notFound", Str("a"))>>)), Failure(Num(2))}

\* A function of a module (output type in `type`, declared errors in
\* `other`), what it resolves to, the retrieve it is called with and the
\* options of the module.
ModuleInit ==
  /\ op = "init"
  /\ result = NoResult
  /\ args = Undefined
  /\ calls = 0
  /\ resolutions = 0
  /\ resolved = NoResult
  /\ type \in OutputTypes
  /\ other \in DeclaredErrors
  /\ value \in Outputs(other)
  /\ opts \in Retrieves
  /\ options \in ModuleOptions

ThisFunction == [output |-> type, errors |-> other]

Build ==
  \E middlewares \in OwnMiddlewares :
    Helper("build", [middlewares |-> build(options, middlewares)],
           [middlewares |-> middlewares], 0)

\* The depth check of the built function runs.
CheckMaxSelectionDepth ==
  \E i \in 1..Len(build(options, Undefined)) :
    LET m == build(options, Undefined)[i]
    IN  /\ m.name = "Check max selection depth"
        /\ LET r == applyCheckMaxSelectionDepth(m, opts, ThisFunction)
           IN  Helper("checkMaxSelectionDepth", r.returned, m, r.invoked)

\* The output check of the built function runs, after next resolved to
\* `value`.
CheckOutputType ==
  /\ type.kind \in {"number", "string"}
  /\ \E i \in 1..Len(build(options, Undefined)) :
       LET m == build(options, Undefined)[i]
       IN  /\ m.name = "Check output type"
           /\ Helper("checkOutputType",
                     applyCheckOutputType(m.onFailure, value, opts, ThisFunction),
                     m, 1)

ModuleNext ==
  \/ Build
  \/ CheckMaxSelectionDepth
  \/ CheckOutputType

ModuleSpec == ModuleInit /\ [][ModuleNext]_vars

IsResult(r) == "isOk" \in DOMAIN r

\* C29: checkOutputType keeps the shape of the function's result. For a
\* function that declares errors, whenever apply does not throw it returns a
\* Result: a Failure for a failed call, an Ok otherwise, also when the output
\* fails decoding and onFailure is 'log'; for a function without declared
\* errors it returns a bare value. With onFailure 'throw' an output that fails
\* decoding raises InvalidOutputValue and is not returned.
C29_OutputCheckKeepsShape ==
  op = "checkOutputType" =>
    /\ (other # Undefined /\ ~IsThrown(result)) =>
         /\ IsResult(result)
         /\ result.isOk = value.isOk
    /\ (other = Undefined /\ ~IsThrown(result)) => ~IsResult(result)
    /\ (/\ args.onFailure = "throw"
        /\ ~IsFailure(value)
        /\ ~decodeAsResult(type, IF other # Undefined THEN value.value ELSE value).isOk)
         => /\ IsThrown(result)
            /\ result.thrown = "InvalidOutputValue"

C30_WitnessTooDeep ==
  /\ op = "checkMaxSelectionDepth"
  /\ result = MaxSelectionDepthReached
  /\ type = Blog
  /\ args.maxDepth = Num(4)

====
